---- MODULE Spec2Model ----
(***************************************************************************)
(* A model of the multi-user TODO service: the Express route handlers of   *)
(* server.js (JWT generation, src/unnamed/part_005) over the SQLite        *)
(* persistence functions of database.js (src/unnamed/part_002), with the   *)
(* in-process LRU caches between them.                                     *)
(*                                                                         *)
(* Representation.  A JavaScript string is a sequence of one-character     *)
(* strings (<<"a", ":", "b">> is 'a:b'); enumerated literals that the code *)
(* only compares as a whole ('high', 'manual') are one-token sequences.    *)
(* A JavaScript / SQLite value is a tagged record: Undef, Null, S(string), *)
(* B(boolean), N(number).  One tick of the clock `now` is the resolution   *)
(* of SQLite's CURRENT_TIMESTAMP (one second).                             *)
(*                                                                         *)
(* Scope.  A request of the model is one that Express hands to the route:  *)
(* the application-wide middleware in front of the routes (helmet, cors,   *)
(* express.json, express.static) and the rate limiters keep their state    *)
(* outside the program and are not modelled.  A route is modelled from its *)
(* own middleware (authenticateToken) to the response.                     *)
(***************************************************************************)
EXTENDS Integers, Sequences, FiniteSets, TLC

VARIABLES
  users,          \* table users: sequence of rows, users[i].id = i
  tasks,          \* table tasks: function from the ids of the stored rows to rows
  taskSeq,        \* AUTOINCREMENT counter of tasks (largest id ever assigned)
  txOpen,         \* the shared connection is inside a transaction (BEGIN without COMMIT/ROLLBACK)
  taskCache,      \* LRUCache taskCache: sequence of entries in Map insertion order
  categoryCache,  \* LRUCache categoryCache
  now,            \* the clock (Date.now() / CURRENT_TIMESTAMP), in ticks
  creator,        \* history: creator[i] is the user who created the task with id i
  inflight,       \* the requests whose handler is waiting for a store call: for
                  \* each its request, the call it waits for and its local values
  last            \* the request handled last, the user it acted for, the response
                  \* it was given, the persistence functions it called and the
                  \* tasks table as it was before the request

vars == <<users, tasks, taskSeq, txOpen, taskCache, categoryCache, now, creator, inflight,
          last>>
store == <<users, tasks, taskSeq, txOpen, creator>>
caches == <<taskCache, categoryCache>>

-----------------------------------------------------------------------------
(* Bounds of the model *)

\* at most this many rows are ever inserted into tasks
MaxTasks == 2
\* the clock stops at this tick
MaxClock == 1

(* Program constants *)

\* CACHE_TTL (process.env.CACHE_TTL, in ticks here)
CACHE_TTL == 2
\* MAX_CACHE_SIZE (process.env.MAX_CACHE_SIZE)
MAX_CACHE_SIZE == 2
\* LIMIT of the listing query (1000 rows in database.js, scaled to the model's
\* table sizes so that a user can own more rows than the query returns)
TASK_LIMIT == 3
\* LIMIT of the category query (100 rows in database.js, scaled likewise)
CATEGORY_LIMIT == 3
\* longest task text
TEXT_MAX == 200
\* longest category
CATEGORY_MAX == 50
USERNAME_MIN == 3
USERNAME_MAX == 30
PASSWORD_MIN == 6

-----------------------------------------------------------------------------
(* JavaScript values *)

Undef == [t |-> "undefined"]
Null == [t |-> "null"]
S(s) == [t |-> "string", s |-> s]
B(b) == [t |-> "boolean", b |-> b]
N(n) == [t |-> "number", n |-> n]
A(a) == [t |-> "array", a |-> a]
\* NaN, and a number with a fractional part
NaN == [t |-> "number", nan |-> TRUE]
Frac == [t |-> "number", frac |-> TRUE]

IsString(v) == v.t = "string"
IsBoolean(v) == v.t = "boolean"
IsArray(v) == v.t = "array"
\* Number.isInteger(v)
IsInteger(v) == v.t = "number" /\ "n" \in DOMAIN v

\* JavaScript truthiness: undefined, null, '', 0 and false are falsy
Truthy(v) ==
  CASE v.t = "undefined" -> FALSE
    [] v.t = "null" -> FALSE
    [] v.t = "string" -> v.s # <<>>
    [] v.t = "boolean" -> v.b
    [] v.t = "number" -> IF "n" \in DOMAIN v THEN v.n # 0 ELSE v # NaN
    [] v.t = "array" -> TRUE

\* a || b
Or(a, b) == IF Truthy(a) THEN a ELSE b

-----------------------------------------------------------------------------
(* Strings *)

Whitespace == {" "}
LowerChar(c) ==
  CASE c = "A" -> "a" [] c = "B" -> "b" [] c = "C" -> "c" [] OTHER -> c

\* String.prototype.toLowerCase
toLowerCase(s) == [i \in 1..Len(s) |-> LowerChar(s[i])]

RECURSIVE TrimLeft(_)
TrimLeft(s) == IF s # <<>> /\ Head(s) \in Whitespace THEN TrimLeft(Tail(s)) ELSE s
RECURSIVE TrimRight(_)
TrimRight(s) ==
  IF s # <<>> /\ s[Len(s)] \in Whitespace THEN TrimRight(SubSeq(s, 1, Len(s) - 1)) ELSE s
\* String.prototype.trim
trim(s) == TrimRight(TrimLeft(s))

\* s contains p as a contiguous substring
Contains(s, p) ==
  \E i \in 1..(Len(s) - Len(p) + 1) : SubSeq(s, i, i + Len(p) - 1) = p

\* SQLite  text LIKE '%' || p || '%'  (LIKE ignores the case of ASCII letters)
Like(text, p) == Contains(toLowerCase(text), toLowerCase(p))

DigitChar == [d \in 0..9 |->
  CASE d = 0 -> "0" [] d = 1 -> "1" [] d = 2 -> "2" [] d = 3 -> "3" [] d = 4 -> "4"
    [] d = 5 -> "5" [] d = 6 -> "6" [] d = 7 -> "7" [] d = 8 -> "8" [] d = 9 -> "9"]
IsDigit(c) == \E d \in 0..9 : DigitChar[d] = c
DigitVal(c) == CHOOSE d \in 0..9 : DigitChar[d] = c

\* Number.prototype.toString of a natural number
RECURSIVE NatToString(_)
NatToString(n) ==
  IF n < 10 THEN <<DigitChar[n]>> ELSE NatToString(n \div 10) \o <<DigitChar[n % 10]>>
\* Number.prototype.toString of an integer
toString(n) == IF n < 0 THEN <<"-">> \o NatToString(-n) ELSE NatToString(n)

\* the longest prefix of s made of decimal digits
RECURSIVE DigitPrefix(_)
DigitPrefix(s) ==
  IF s # <<>> /\ IsDigit(Head(s)) THEN <<Head(s)>> \o DigitPrefix(Tail(s)) ELSE <<>>

RECURSIVE DigitsValue(_)
DigitsValue(d) ==
  IF d = <<>> THEN 0 ELSE 10 * DigitsValue(SubSeq(d, 1, Len(d) - 1)) + DigitVal(d[Len(d)])

\* parseInt(s, 10): leading whitespace, an optional sign, then the digits up to
\* the first other character; NaN when there is no digit
parseInt(s) ==
  LET t == TrimLeft(s)
      signed == t # <<>> /\ Head(t) \in {"-", "+"}
      d == DigitPrefix(IF signed THEN Tail(t) ELSE t)
  IN IF d = <<>> THEN NaN
     ELSE IF signed /\ Head(t) = "-" THEN N(0 - DigitsValue(d))
     ELSE N(DigitsValue(d))

-----------------------------------------------------------------------------
(* database.js: the tasks table *)

\* the order of a plain  ORDER BY priority : the priorities as strings
PriorityRankAlphabetical(p) ==
  CASE p = S(<<"high">>) -> 1
    [] p = S(<<"low">>) -> 2
    [] p = S(<<"medium">>) -> 3
    [] OTHER -> 2

PriorityRank(p) ==
  CASE p = S(<<"high">>) -> 1
    [] p = S(<<"medium">>) -> 2
    [] p = S(<<"low">>) -> 3
    [] OTHER -> 2

\* the ORDER BY key of a row
OrderKey(row, sortBy) ==
  IF sortBy = S(<<"manual">>)
  THEN <<row.completed, row.sort_order, 0>>
  ELSE <<row.completed, PriorityRank(row.priority), row.created_at>>

KeyLeq(a, b) ==
  \/ a[1] < b[1]
  \/ a[1] = b[1] /\ a[2] < b[2]
  \/ a[1] = b[1] /\ a[2] = b[2] /\ a[3] <= b[3]

\* the rows of table T the WHERE clause of getAllTasks selects
MatchingIds(T, userId, searchQuery, categoryFilter) ==
  {i \in DOMAIN T :
     /\ T[i].user_id = userId
     /\ Truthy(searchQuery) => Like(T[i].text.s, searchQuery.s)
     /\ Truthy(categoryFilter) => T[i].category = categoryFilter}

\* every enumeration of a set of ids
Enumerations(ids) ==
  {f \in [1..Cardinality(ids) -> ids] : \A i, j \in DOMAIN f : i # j => f[i] # f[j]}

Min(a, b) == IF a < b THEN a ELSE b

\* getAllTasks: the row lists the query may return from table T.  SQLite leaves
\* the order of rows with equal ORDER BY keys unspecified, so every order of the
\* ties is a possible result; LIMIT keeps the first TASK_LIMIT rows.
getAllTasks(T, userId, searchQuery, categoryFilter, sortBy) ==
  LET ids == MatchingIds(T, userId, searchQuery, categoryFilter)
      by == IF sortBy = Undef THEN S(<<"priority">>) ELSE sortBy
      sorted == {f \in Enumerations(ids) :
                   \A i, j \in DOMAIN f :
                     i < j => KeyLeq(OrderKey(T[f[i]], by), OrderKey(T[f[j]], by))}
  IN {[i \in 1..Min(Len(f), TASK_LIMIT) |-> T[f[i]]] : f \in sorted}

\* SELECT MAX(sort_order) FROM tasks  without the user, then  (max_sort || 0)
MaxSortOrderAllUsers(T, userId) ==
  LET all == {T[i].sort_order : i \in DOMAIN T}
  IN IF all = {} THEN 0 ELSE CHOOSE m \in all : \A x \in all : x <= m

\* SELECT MAX(sort_order) FROM tasks WHERE user_id = ?, then  (max_sort || 0)
MaxSortOrder(T, userId) ==
  LET own == {T[i].sort_order : i \in {j \in DOMAIN T : T[j].user_id = userId}}
  IN IF own = {} THEN 0 ELSE CHOOSE m \in own : \A x \in own : x <= m

\* addTask: the row inserted with id `id`; nextSortOrder = (row.max_sort || 0) + 1
addTaskRow(T, id, text, userId, priority, dueDate, category) ==
  [id |-> id,
   text |-> text,
   priority |-> priority,
   due_date |-> IF dueDate = Undef THEN Null ELSE dueDate,
   category |-> IF category = Undef THEN Null ELSE category,
   completed |-> 0,
   sort_order |-> MaxSortOrder(T, userId) + 1,
   user_id |-> userId,
   created_at |-> now]

\* addTask: the table after the INSERT (this.lastID = id)
addTask(T, id, text, userId, priority, dueDate, category) ==
  (id :> addTaskRow(T, id, text, userId, priority, dueDate, category)) @@ T

\* the rows a clause  WHERE id = ?  without the user selects
OwnedAnyUser(T, id, userId) == {i \in DOMAIN T : i = id}

\* the rows a  WHERE id = ? AND user_id = ?  clause selects
Owned(T, id, userId) == {i \in DOMAIN T : i = id /\ T[i].user_id = userId}

\* a statement that reports a change whatever it matched
ChangedAlways(T, id, userId) == TRUE

\* this.changes > 0 of a statement with WHERE id = ? AND user_id = ?
Changed(T, id, userId) == Owned(T, id, userId) # {}

\* deleteTask: the table after DELETE FROM tasks WHERE id = ? AND user_id = ?
deleteTask(T, id, userId) ==
  [i \in DOMAIN T \ Owned(T, id, userId) |-> T[i]]

\* updateTask: the table after the UPDATE, which sets text and the columns
\* whose argument is not undefined
updateTask(T, id, userId, text, priority, dueDate, category, completed) ==
  [i \in DOMAIN T |->
     IF i \in Owned(T, id, userId)
     THEN [T[i] EXCEPT
             !.text = text,
             !.priority = IF priority = Undef THEN @ ELSE priority,
             !.due_date = IF dueDate = Undef THEN @ ELSE dueDate,
             !.category = IF category = Undef THEN @ ELSE category,
             !.completed = IF completed = Undef THEN @
                           ELSE IF Truthy(completed) THEN 1 ELSE 0]
     ELSE T[i]]

\* an update that sets completed instead of flipping it: completed = 1
toggleTaskCompletionSets(T, id, userId) ==
  [i \in DOMAIN T |->
     IF i \in Owned(T, id, userId) THEN [T[i] EXCEPT !.completed = 1] ELSE T[i]]

\* toggleTaskCompletion: completed = 1 - completed
toggleTaskCompletion(T, id, userId) ==
  [i \in DOMAIN T |->
     IF i \in Owned(T, id, userId) THEN [T[i] EXCEPT !.completed = 1 - @] ELSE T[i]]

\* one statement of the reorder batch: UPDATE tasks SET sort_order = ? WHERE id = ?
reorderStatement(T, item) ==
  [i \in DOMAIN T |->
     IF i = item.id.n THEN [T[i] EXCEPT !.sort_order = item.sort_order.n] ELSE T[i]]

\* the statements k..Len(taskOrders) of the batch run in order; the statement
\* numbered `failing` fails and changes nothing
RECURSIVE reorderStatements(_, _, _, _)
reorderStatements(T, taskOrders, k, failing) ==
  IF k > Len(taskOrders) THEN T
  ELSE reorderStatements(IF k = failing THEN T ELSE reorderStatement(T, taskOrders[k]),
                         taskOrders, k + 1, failing)

\* The places where the store can fail during reorderTasks
NoFault == [at |-> "none", k |-> 0]
Faults(n) ==
  {NoFault} \cup {[at |-> x, k |-> 0] : x \in {"begin", "finalize", "commit"}}
            \cup {[at |-> "statement", k |-> k] : k \in 1..n}

\* reorderTasks: the possible outcomes [resolved, tasks, txOpen] on table T with
\* the connection's transaction state `open`.  BEGIN fails inside an open
\* transaction.  After an error of a statement or of finalize the code runs
\* ROLLBACK and rejects; after a failed COMMIT it rejects without ROLLBACK, and
\* SQLite has then either kept the transaction active (SQLITE_BUSY) or rolled
\* it back itself.
reorderTasks(T, open, taskOrders, fault) ==
  IF Len(taskOrders) = 0
  THEN {[resolved |-> TRUE, tasks |-> T, txOpen |-> open]}
  ELSE IF open \/ fault.at = "begin"
  THEN {[resolved |-> FALSE, tasks |-> T, txOpen |-> open]}
  ELSE IF fault.at \in {"statement", "finalize"}
  THEN {[resolved |-> FALSE, tasks |-> T, txOpen |-> FALSE]}
  ELSE IF fault.at = "commit"
  THEN {[resolved |-> FALSE, tasks |-> reorderStatements(T, taskOrders, 1, 0), txOpen |-> TRUE],
        [resolved |-> FALSE, tasks |-> T, txOpen |-> FALSE]}
  ELSE {[resolved |-> TRUE, tasks |-> reorderStatements(T, taskOrders, 1, 0), txOpen |-> FALSE]}

\* the characters of the model in the order of their codes (BINARY collation)
CharOrder == <<" ", "0", "1", "2", "3", "4", "5", "6", "7", "8", "9", ":", "A", "B", "C", "a", "b", "c">>
CharRank(c) == CHOOSE k \in 1..Len(CharOrder) : CharOrder[k] = c

\* a < b in the BINARY collation
StringLess(a, b) ==
  \E k \in 1..(Min(Len(a), Len(b)) + 1) :
    /\ \A i \in 1..(k - 1) : a[i] = b[i]
    /\ \/ k = Len(a) + 1 /\ k <= Len(b)
       \/ k <= Len(a) /\ k <= Len(b) /\ CharRank(a[k]) < CharRank(b[k])

\* getAllCategories: SELECT DISTINCT category ... WHERE user_id = ? AND category
\* IS NOT NULL AND category != '' ORDER BY category LIMIT 100
getAllCategories(T, userId) ==
  LET cats == {T[i].category.s :
                 i \in {j \in DOMAIN T :
                          /\ T[j].user_id = userId
                          /\ T[j].category # Null
                          /\ T[j].category # S(<<>>)}}
      sorted == CHOOSE f \in [1..Cardinality(cats) -> cats] :
                  \A i, j \in DOMAIN f : i < j => StringLess(f[i], f[j])
  IN [i \in 1..Min(Cardinality(cats), CATEGORY_LIMIT) |-> sorted[i]]

-----------------------------------------------------------------------------
(* database.js: the users table *)

\* a lookup by username that finds nobody
getUserByUsernameNone(username) == {}

\* getUserByEmail: the row (a set of at most one row, UNIQUE email)
getUserByEmail(email) == {users[i] : i \in {j \in DOMAIN users : users[j].email = email}}
getUserByUsername(username) ==
  {users[i] : i \in {j \in DOMAIN users : users[j].username = username}}
getUserById(id) == {users[i] : i \in {j \in DOMAIN users : users[j].id = id}}

\* the INSERT of createUser violates UNIQUE(username) or UNIQUE(email)
UniqueViolation(username, email) ==
  \E i \in DOMAIN users : users[i].username = username \/ users[i].email = email

\* createUser: the table after the INSERT (this.lastID = Len(users) + 1)
createUser(username, email, passwordHash) ==
  Append(users, [id |-> Len(users) + 1, username |-> username, email |-> email,
                 password_hash |-> passwordHash])

\* a comparison that accepts every password
bcryptCompareAny(password, hash) == TRUE

\* bcrypt.hash and bcrypt.compare: compare(p, hash(q)) holds exactly when p = q
bcryptHash(password) == [bcrypt |-> password]
bcryptCompare(password, hash) == hash = bcryptHash(password)

-----------------------------------------------------------------------------
(* server.js: ErrorResponse *)

badRequest(message, details) ==
  [type |-> "VALIDATION_ERROR", message |-> message, details |-> details, code |-> 400]
unauthorized(message) ==
  [type |-> "AUTHENTICATION_ERROR", message |-> message, code |-> 401]
notFound(resource) ==
  [type |-> "NOT_FOUND_ERROR", message |-> resource \o " not found", code |-> 404]
serverError(message) ==
  [type |-> "SERVER_ERROR", message |-> message, code |-> 500]

-----------------------------------------------------------------------------
(* server.js: LRUCache.  A cache is the sequence of the Map's entries in
   insertion order; an entry is [key, data, timestamp]. *)

CacheIndex(cache, key) ==
  IF \E i \in DOMAIN cache : cache[i].key = key
  THEN CHOOSE i \in DOMAIN cache : cache[i].key = key
  ELSE 0

Without(cache, i) == SubSeq(cache, 1, i - 1) \o SubSeq(cache, i + 1, Len(cache))

\* a get that leaves the entry where it is in the Map
cacheGetInPlace(cache, key) ==
  LET i == CacheIndex(cache, key)
  IN IF i = 0
     THEN [cache |-> cache, hit |-> FALSE]
     ELSE IF now - cache[i].timestamp > CACHE_TTL
          THEN [cache |-> Without(cache, i), hit |-> FALSE]
          ELSE [cache |-> cache, hit |-> TRUE, value |-> cache[i]]

\* LRUCache.get: [cache |-> the cache afterwards, hit |-> an entry was returned,
\* value |-> the entry]
cacheGet(cache, key) ==
  LET i == CacheIndex(cache, key)
  IN IF i = 0
     THEN [cache |-> cache, hit |-> FALSE]
     ELSE IF now - cache[i].timestamp > CACHE_TTL
          THEN [cache |-> Without(cache, i), hit |-> FALSE]
          ELSE [cache |-> Append(Without(cache, i), cache[i]), hit |-> TRUE,
                value |-> cache[i]]

\* LRUCache.has
cacheHas(cache, key) == cacheGet(cache, key)

\* LRUCache.set
cacheSet(cache, key, data) ==
  LET i == CacheIndex(cache, key)
      kept == IF i # 0 THEN Without(cache, i)
              ELSE IF Len(cache) >= MAX_CACHE_SIZE THEN Tail(cache)
              ELSE cache
  IN Append(kept, [key |-> key, data |-> data, timestamp |-> now])

\* LRUCache.delete
cacheDelete(cache, key) ==
  LET i == CacheIndex(cache, key) IN IF i = 0 THEN cache ELSE Without(cache, i)

\* LRUCache.clear
cacheClear(cache) == <<>>

\* a read through a cache that still serves an entry whose age is the TTL
CacheLookupLate(cache, key) ==
  LET h == cacheHas(cache, key)
      g == cacheGet(h.cache, key)
  IN IF ~h.hit THEN [cache |-> h.cache, hit |-> FALSE]
     ELSE [cache |-> g.cache, hit |-> TRUE, data |-> g.value.data]

\* a read through a cache as GET /tasks and GET /categories do it: has, then
\* get and the handler's own age test, then delete of a stale entry
CacheLookup(cache, key) ==
  LET h == cacheHas(cache, key)
      g == cacheGet(h.cache, key)
  IN IF ~h.hit THEN [cache |-> h.cache, hit |-> FALSE]
     ELSE IF now - g.value.timestamp < CACHE_TTL
          THEN [cache |-> g.cache, hit |-> TRUE, data |-> g.value.data]
          ELSE [cache |-> cacheDelete(g.cache, key), hit |-> FALSE]

-----------------------------------------------------------------------------
(* server.js: authentication *)

\* jwt.sign({userId, username, email}, JWT_SECRET, {expiresIn})
jwtSign(userId, username, email) ==
  [userId |-> userId, username |-> username, email |-> email, signed |-> TRUE,
   expired |-> FALSE]

\* jwt.verify: the token carries this server's signature and has not expired
jwtVerify(token) == token.signed /\ ~token.expired

\* The Authorization header of a request: Undef when absent, otherwise S(parts)
\* where parts is the header split at ' ' ("Bearer" alone has one part)
NoHeader == Undef
BearerOnly == S(<<"Bearer">>)
Bearer(token) == S(<<"Bearer", token>>)

\* an authentication that lets a request without Authorization header pass as
\* the first user
authenticateTokenOptional(authHeader) ==
  IF ~Truthy(authHeader)
  THEN [ok |-> TRUE, user |-> jwtSign(1, <<>>, <<>>)]
  ELSE IF Len(authHeader.s) < 2
  THEN [ok |-> FALSE, status |-> 401,
        body |-> unauthorized("Invalid authorization header format")]
  ELSE IF ~jwtVerify(authHeader.s[2])
  THEN [ok |-> FALSE, status |-> 401, body |-> unauthorized("Invalid token")]
  ELSE [ok |-> TRUE, user |-> authHeader.s[2]]

\* authenticateToken: [ok |-> TRUE, user |-> decoded] when next() is called,
\* otherwise the response sent
authenticateToken(authHeader) ==
  IF ~Truthy(authHeader)
  THEN [ok |-> FALSE, status |-> 401,
        body |-> unauthorized("No authorization header provided")]
  ELSE IF Len(authHeader.s) < 2
  THEN [ok |-> FALSE, status |-> 401,
        body |-> unauthorized("Invalid authorization header format")]
  ELSE IF ~jwtVerify(authHeader.s[2])
  THEN [ok |-> FALSE, status |-> 401, body |-> unauthorized("Invalid token")]
  ELSE [ok |-> TRUE, user |-> authHeader.s[2]]

-----------------------------------------------------------------------------
(* server.js: what a handler produces *)

\* the state a handler leaves when it changes nothing, with no response yet
Same ==
  [status |-> 0, body |-> Undef, users |-> users, tasks |-> tasks, taskSeq |-> taskSeq,
   txOpen |-> txOpen, taskCache |-> taskCache, categoryCache |-> categoryCache,
   creator |-> creator, calls |-> <<>>]

\* res.status(status).json(body) with nothing changed
Reply(status, body) == [Same EXCEPT !.status = status, !.body = body]

\* the handler called the persistence functions `names` of database.js, in order
Called(out, names) == [out EXCEPT !.calls = names]

\* n calls of the persistence function `name`, one per turn of a loop
Times(n, name) == [i \in 1..n |-> name]

\* a write path that leaves the task cache as it is
clearTaskCacheNever(out) == out

\* a write path that leaves the category cache as it is
clearCategoryCacheNever(out) == out

\* clearTaskCache() and clearCategoryCache()
clearTaskCache(out) == [out EXCEPT !.taskCache = cacheClear(@)]
clearCategoryCache(out) == [out EXCEPT !.categoryCache = cacheClear(@)]

\* the error messages a validation collected, in order
Collect(checks) == SelectSeq(checks, LAMBDA m : m # "")

-----------------------------------------------------------------------------
(* server.js: POST /auth/register, POST /auth/login, GET /auth/me *)

\* /^[^\s@]+@[^\s@]+\.[^\s@]+$/.test(s)
EmailShape(s) ==
  /\ \A i \in DOMAIN s : s[i] \notin Whitespace
  /\ Cardinality({i \in DOMAIN s : s[i] = "@"}) = 1
  /\ LET at == CHOOSE i \in DOMAIN s : s[i] = "@"
     IN /\ at > 1
        /\ \E d \in (at + 2)..(Len(s) - 1) : s[d] = "."

registerValidation(body) ==
  Collect(<<
    IF ~Truthy(body.username) \/ ~IsString(body.username) \/ trim(body.username.s) = <<>>
      THEN "Username is required"
    ELSE IF Len(trim(body.username.s)) < USERNAME_MIN
      THEN "Username must be at least 3 characters long"
    ELSE IF Len(trim(body.username.s)) > USERNAME_MAX
      THEN "Username cannot exceed 30 characters"
    ELSE "",
    IF ~Truthy(body.email) \/ ~IsString(body.email) \/ trim(body.email.s) = <<>>
      THEN "Email is required"
    ELSE IF ~EmailShape(trim(body.email.s)) THEN "Invalid email format"
    ELSE "",
    IF ~Truthy(body.password) \/ ~IsString(body.password) THEN "Password is required"
    ELSE IF Len(body.password.s) < PASSWORD_MIN
      THEN "Password must be at least 6 characters long"
    ELSE "" >>)

\* app.post('/auth/register')
postRegister(req) ==
  LET body == req.body
      errors == registerValidation(body)
      username == trim(body.username.s)
      email == toLowerCase(trim(body.email.s))
  IN IF errors # <<>>
     THEN {Reply(400, badRequest("Validation failed", errors))}
     ELSE IF getUserByEmail(email) # {}
     THEN {Called(Reply(409, badRequest("Email already registered", <<>>)),
                  <<"getUserByEmail">>)}
     ELSE IF getUserByUsername(username) # {}
     THEN {Called(Reply(409, badRequest("Username already taken", <<>>)),
                  <<"getUserByEmail", "getUserByUsername">>)}
     ELSE IF UniqueViolation(username, email)
     THEN {Called(Reply(500, serverError("Failed to register user")),
                  <<"getUserByEmail", "getUserByUsername", "createUser">>)}
     ELSE {[Same EXCEPT
              !.users = createUser(username, email, bcryptHash(body.password.s)),
              !.calls = <<"getUserByEmail", "getUserByUsername", "createUser">>,
              !.status = 201,
              !.body = [message |-> "User registered successfully",
                        user |-> [id |-> Len(users) + 1, username |-> username,
                                  email |-> email],
                        token |-> jwtSign(Len(users) + 1, username, email)]]}

loginValidation(body) ==
  Collect(<<
    IF ~Truthy(body.email) \/ ~IsString(body.email) \/ trim(body.email.s) = <<>>
      THEN "Email is required" ELSE "",
    IF ~Truthy(body.password) \/ ~IsString(body.password)
      THEN "Password is required" ELSE "" >>)

\* app.post('/auth/login')
postLogin(req) ==
  LET body == req.body
      errors == loginValidation(body)
      found == getUserByEmail(toLowerCase(trim(body.email.s)))
      user == CHOOSE u \in found : TRUE
  IN IF errors # <<>>
     THEN {Reply(400, badRequest("Validation failed", errors))}
     ELSE IF found = {}
     THEN {Called(Reply(401, unauthorized("Invalid credentials")), <<"getUserByEmail">>)}
     ELSE IF ~bcryptCompare(body.password.s, user.password_hash)
     THEN {Called(Reply(401, unauthorized("Invalid credentials")), <<"getUserByEmail">>)}
     ELSE {Called(Reply(200, [message |-> "Login successful",
                              user |-> [id |-> user.id, username |-> user.username,
                                        email |-> user.email],
                              token |-> jwtSign(user.id, user.username, user.email)]),
                  <<"getUserByEmail">>)}

\* app.get('/auth/me')
getMe(req) ==
  LET a == authenticateToken(req.auth)
      found == getUserById(a.user.userId)
      user == CHOOSE u \in found : TRUE
  IN IF ~a.ok THEN {Reply(a.status, a.body)}
     ELSE IF found = {} THEN {Called(Reply(404, notFound("User")), <<"getUserById">>)}
     ELSE {Called(Reply(200, [user |-> [id |-> user.id, username |-> user.username,
                                        email |-> user.email]]),
                  <<"getUserById">>)}

-----------------------------------------------------------------------------
(* server.js: GET /tasks and POST /tasks *)

\* the row as GET /tasks formats it
formatTask(task) ==
  [id |-> task.id, text |-> task.text,
   priority |-> Or(task.priority, S(<<"medium">>)),
   due_date |-> task.due_date, category |-> task.category,
   completed |-> (task.completed # 0), sort_order |-> task.sort_order]

\* a cache key that leaves the user out: `tasks:${search}:${category}:${sort}`
taskCacheKeyShared(userId, search, category, sort) ==
  <<"tasks", ":">> \o Or(search, S(<<>>)).s
    \o <<":">> \o Or(category, S(<<>>)).s \o <<":">> \o Or(sort, S(<<"priority">>)).s

\* `tasks:${userId}:${search || ''}:${category || ''}:${sort || 'priority'}`
taskCacheKey(userId, search, category, sort) ==
  <<"tasks", ":">> \o toString(userId) \o <<":">> \o Or(search, S(<<>>)).s
    \o <<":">> \o Or(category, S(<<>>)).s \o <<":">> \o Or(sort, S(<<"priority">>)).s

SortModes == {S(<<"manual">>), S(<<"priority">>), S(<<"created">>)}

\* app.get('/tasks')
getTasks(req) ==
  LET a == authenticateToken(req.auth)
      q == req.query
      userId == a.user.userId
      cacheKey == taskCacheKey(userId, q.search, q.category, q.sort)
      look == CacheLookup(taskCache, cacheKey)
  IN IF ~a.ok THEN {Reply(a.status, a.body)}
     ELSE IF Truthy(q.search) /\ ~IsString(q.search)
     THEN {Reply(400, badRequest("Search parameter must be a string", <<>>))}
     ELSE IF Truthy(q.category) /\ ~IsString(q.category)
     THEN {Reply(400, badRequest("Category parameter must be a string", <<>>))}
     ELSE IF Truthy(q.sort) /\ q.sort \notin SortModes
     THEN {Reply(400, badRequest("Sort parameter must be one of: manual, priority, created", <<>>))}
     ELSE IF look.hit
     THEN {[Same EXCEPT !.taskCache = look.cache, !.status = 200,
                        !.body = [xcache |-> "HIT", data |-> look.data]]}
     ELSE {LET formattedTasks == [i \in DOMAIN rows |-> formatTask(rows[i])]
           IN [Same EXCEPT !.taskCache = cacheSet(look.cache, cacheKey, formattedTasks),
                           !.calls = <<"getAllTasks">>,
                           !.status = 200,
                           !.body = [xcache |-> "MISS", data |-> formattedTasks]]
           : rows \in getAllTasks(tasks, userId, q.search, q.category, q.sort)}

Priorities == {S(<<"high">>), S(<<"medium">>), S(<<"low">>)}

\* Date.parse(s) is a number: the date strings of the model are one-token
\* strings, and these are the ones Date.parse understands
ParseableDates == {<<"2030-01-01">>, <<"2020-01-01">>}
dateParses(s) == s \in ParseableDates

\* a text validation that already rejects a text of TEXT_MAX characters
textValidationOffByOne(text) ==
  IF ~Truthy(text) THEN "Task text is required"
  ELSE IF ~IsString(text) THEN "Task text must be a string"
  ELSE IF trim(text.s) = <<>> THEN "Task text cannot be empty"
  ELSE IF Len(trim(text.s)) >= TEXT_MAX THEN "Task text cannot exceed 200 characters"
  ELSE ""

textValidation(text) ==
  IF ~Truthy(text) THEN "Task text is required"
  ELSE IF ~IsString(text) THEN "Task text must be a string"
  ELSE IF trim(text.s) = <<>> THEN "Task text cannot be empty"
  ELSE IF Len(trim(text.s)) > TEXT_MAX THEN "Task text cannot exceed 200 characters"
  ELSE ""

categoryValidation(category) ==
  IF ~IsString(category) THEN "Category must be a string"
  ELSE IF Len(category.s) > CATEGORY_MAX THEN "Category cannot exceed 50 characters"
  ELSE ""

dueDateValidation(due_date) ==
  IF ~IsString(due_date) THEN "Due date must be a string"
  ELSE IF ~dateParses(due_date.s) THEN "Due date must be in valid date format (YYYY-MM-DD)"
  ELSE ""

\* const { text, priority = 'medium', due_date, category } = req.body
postTasksValidation(body) ==
  LET priority == IF body.priority = Undef THEN S(<<"medium">>) ELSE body.priority
  IN Collect(<<
       textValidation(body.text),
       IF priority \notin Priorities THEN "Priority must be one of: high, medium, low" ELSE "",
       IF Truthy(body.due_date) THEN dueDateValidation(body.due_date) ELSE "",
       IF Truthy(body.category) THEN categoryValidation(body.category) ELSE "" >>)

\* category?.trim() || null ; a value that is neither nullish nor a string has
\* no trim method (TypeError)
trimOrNull(category) ==
  IF category \in {Undef, Null} THEN Null
  ELSE Or(S(trim(category.s)), Null)
trimThrows(category) == category \notin {Undef, Null} /\ ~IsString(category)

\* app.post('/tasks')
postTasks(req) ==
  LET a == authenticateToken(req.auth)
      body == req.body
      userId == a.user.userId
      priority == IF body.priority = Undef THEN S(<<"medium">>) ELSE body.priority
      errors == postTasksValidation(body)
      taskId == taskSeq + 1
  IN IF ~a.ok THEN {Reply(a.status, a.body)}
     ELSE IF errors # <<>>
     THEN {Reply(400, badRequest("Validation failed", errors))}
     ELSE IF trimThrows(body.category)
     THEN {Reply(500, serverError("Failed to create task"))}
     ELSE {clearCategoryCache(clearTaskCache(
            [Same EXCEPT
               !.tasks = addTask(tasks, taskId, S(trim(body.text.s)), userId, priority,
                                 body.due_date, trimOrNull(body.category)),
               !.taskSeq = taskId,
               !.creator = Append(creator, userId),
               !.calls = <<"addTask">>,
               !.status = 201,
               !.body = [id |-> taskId, text |-> S(trim(body.text.s)),
                         priority |-> priority,
                         due_date |-> Or(body.due_date, Null),
                         category |-> trimOrNull(body.category),
                         completed |-> FALSE]]))}

-----------------------------------------------------------------------------
(* server.js: the id-based routes DELETE, PUT, PATCH /tasks/:id and the
   index-based routes they pass to with next() *)

\* a test that accepts every string parseInt reads as a positive integer
isValidTaskIdLoose(str) ==
  LET num == parseInt(str)
  IN IsInteger(num) /\ num.n > 0

\* isValidTaskId
isValidTaskId(str) ==
  LET num == parseInt(str)
  IN IsInteger(num) /\ num.n > 0 /\ str = toString(num.n)

\* const taskText = text || task, and the validation of PUT
putValidation(body) ==
  Collect(<<
    textValidation(Or(body.text, body.task)),
    IF body.priority # Undef /\ body.priority \notin Priorities
      THEN "Priority must be one of: high, medium, low" ELSE "",
    IF body.due_date \notin {Undef, Null} THEN dueDateValidation(body.due_date) ELSE "",
    IF body.category \notin {Undef, Null} THEN categoryValidation(body.category) ELSE "",
    IF body.completed # Undef /\ ~IsBoolean(body.completed)
      THEN "Completed status must be a boolean" ELSE "" >>)

\* app.delete('/tasks/:index')
deleteTaskIndex(req) ==
  LET a == authenticateToken(req.auth)
      userId == a.user.userId
      idx == parseInt(req.param)
  IN IF ~a.ok THEN {Reply(a.status, a.body)}
     ELSE IF idx = NaN \/ idx.n < 0
     THEN {Reply(400, badRequest("Index must be a valid non-negative number", <<>>))}
     ELSE {IF idx.n >= Len(rows)
           THEN Called(Reply(400, badRequest("Index is out of range", <<>>)), <<"getAllTasks">>)
           ELSE IF ~Changed(tasks, rows[idx.n + 1].id, userId)
           THEN Called(Reply(404, notFound("Task")), <<"getAllTasks", "deleteTask">>)
           ELSE clearCategoryCache(clearTaskCache(
                  [Same EXCEPT !.tasks = deleteTask(tasks, rows[idx.n + 1].id, userId),
                               !.calls = <<"getAllTasks", "deleteTask">>,
                               !.status = 200,
                               !.body = [message |-> "Task deleted successfully"]]))
           : rows \in getAllTasks(tasks, userId, Undef, Undef, Undef)}

\* app.delete('/tasks/:id')
deleteTaskId(req) ==
  LET a == authenticateToken(req.auth)
      userId == a.user.userId
      taskId == parseInt(req.param).n
  IN IF ~a.ok THEN {Reply(a.status, a.body)}
     ELSE IF ~isValidTaskId(req.param) THEN deleteTaskIndex(req)
     ELSE IF ~Changed(tasks, taskId, userId)
     THEN {Called(Reply(404, notFound("Task")), <<"deleteTask">>)}
     ELSE {clearCategoryCache(clearTaskCache(
             [Same EXCEPT !.tasks = deleteTask(tasks, taskId, userId),
                          !.calls = <<"deleteTask">>,
                          !.status = 204]))}

\* app.put('/tasks/:index')
putTaskIndex(req) ==
  LET a == authenticateToken(req.auth)
      userId == a.user.userId
      body == req.body
      idx == parseInt(req.param)
      taskText == Or(body.text, body.task)
      errors == putValidation(body)
  IN IF ~a.ok THEN {Reply(a.status, a.body)}
     ELSE IF idx = NaN \/ idx.n < 0
     THEN {Reply(400, badRequest("Index must be a valid non-negative number", <<>>))}
     ELSE {IF idx.n >= Len(rows)
           THEN Called(Reply(400, badRequest("Index is out of range", <<>>)), <<"getAllTasks">>)
           ELSE IF errors # <<>>
           THEN Called(Reply(400, badRequest("Validation failed", errors)), <<"getAllTasks">>)
           ELSE IF ~Changed(tasks, rows[idx.n + 1].id, userId)
           THEN Called(Reply(404, notFound("Task")), <<"getAllTasks", "updateTask">>)
           ELSE clearCategoryCache(clearTaskCache(
                  [Same EXCEPT
                     !.tasks = updateTask(tasks, rows[idx.n + 1].id, userId,
                                          S(trim(taskText.s)), body.priority, body.due_date,
                                          trimOrNull(body.category), body.completed),
                     !.calls = <<"getAllTasks", "updateTask">>,
                     !.status = 200,
                     !.body = [message |-> "Task updated successfully",
                               task |-> S(trim(taskText.s))]]))
           : rows \in getAllTasks(tasks, userId, Undef, Undef, Undef)}

\* app.put('/tasks/:id')
putTaskId(req) ==
  LET a == authenticateToken(req.auth)
      userId == a.user.userId
      body == req.body
      taskId == parseInt(req.param).n
      taskText == Or(body.text, body.task)
      errors == putValidation(body)
  IN IF ~a.ok THEN {Reply(a.status, a.body)}
     ELSE IF ~isValidTaskId(req.param) THEN putTaskIndex(req)
     ELSE IF errors # <<>>
     THEN {Reply(400, badRequest("Validation failed", errors))}
     ELSE IF ~Changed(tasks, taskId, userId)
     THEN {Called(Reply(404, notFound("Task")), <<"updateTask">>)}
     ELSE {clearCategoryCache(clearTaskCache(
             [Same EXCEPT
                !.tasks = updateTask(tasks, taskId, userId, S(trim(taskText.s)),
                                     body.priority, body.due_date,
                                     trimOrNull(body.category), body.completed),
                !.calls = <<"updateTask">>,
                !.status = 200,
                !.body = [id |-> taskId, text |-> S(trim(taskText.s)),
                          priority |-> Or(body.priority, S(<<"medium">>)),
                          due_date |-> Or(body.due_date, Null),
                          category |-> trimOrNull(body.category),
                          completed |-> Or(body.completed, B(FALSE))]]))}

\* tasks.find(t => t.id === taskId): the rows found (none or one)
findTask(rows, taskId) == {rows[i] : i \in {j \in DOMAIN rows : rows[j].id = taskId}}

\* app.patch('/tasks/:id'); a parameter that is no valid id matches no other
\* PATCH route and ends in the 404 handler
patchTaskId(req) ==
  LET a == authenticateToken(req.auth)
      userId == a.user.userId
      completed == req.body.completed
      taskId == parseInt(req.param).n
  IN IF ~a.ok THEN {Reply(a.status, a.body)}
     ELSE IF ~isValidTaskId(req.param) THEN {Reply(404, notFound("Endpoint"))}
     ELSE IF completed # Undef /\ ~IsBoolean(completed)
     THEN {Reply(400, badRequest("Completed status must be a boolean", <<>>))}
     ELSE IF completed # Undef
     THEN {LET found == findTask(rows, taskId)
               task == CHOOSE t \in found : TRUE
           IN IF found = {}
              THEN Called(Reply(404, notFound("Task")), <<"getAllTasks">>)
              ELSE IF ~Changed(tasks, taskId, userId)
              THEN Called(Reply(404, notFound("Task")), <<"getAllTasks", "updateTask">>)
              ELSE clearTaskCache(
                     [Same EXCEPT
                        !.tasks = updateTask(tasks, taskId, userId, task.text, task.priority,
                                             task.due_date, task.category, completed),
                        !.calls = <<"getAllTasks", "updateTask">>,
                        !.status = 204])
           : rows \in getAllTasks(tasks, userId, Undef, Undef, Undef)}
     ELSE IF ~Changed(tasks, taskId, userId)
     THEN {Called(Reply(404, notFound("Task")), <<"toggleTaskCompletion">>)}
     ELSE {clearTaskCache([Same EXCEPT !.tasks = toggleTaskCompletion(tasks, taskId, userId),
                                       !.calls = <<"toggleTaskCompletion">>,
                                       !.status = 204])}

\* app.patch('/tasks/:index/toggle')
patchTaskIndexToggle(req) ==
  LET a == authenticateToken(req.auth)
      userId == a.user.userId
      idx == parseInt(req.param)
  IN IF ~a.ok THEN {Reply(a.status, a.body)}
     ELSE IF idx = NaN \/ idx.n < 0
     THEN {Reply(400, badRequest("Index must be a valid non-negative number", <<>>))}
     ELSE {IF idx.n >= Len(rows)
           THEN Called(Reply(400, badRequest("Index is out of range", <<>>)), <<"getAllTasks">>)
           ELSE IF ~Changed(tasks, rows[idx.n + 1].id, userId)
           THEN Called(Reply(404, notFound("Task")), <<"getAllTasks", "toggleTaskCompletion">>)
           ELSE clearTaskCache(
                  [Same EXCEPT
                     !.tasks = toggleTaskCompletion(tasks, rows[idx.n + 1].id, userId),
                     !.calls = <<"getAllTasks", "toggleTaskCompletion">>,
                     !.status = 200,
                     !.body = [message |-> "Task completion toggled successfully"]])
           : rows \in getAllTasks(tasks, userId, Undef, Undef, Undef)}

-----------------------------------------------------------------------------
(* server.js: the bulk routes *)

\* for (const id of ids) { if (await deleteTask(id, userId)) deletedCount++ }
RECURSIVE deleteLoop(_, _, _)
deleteLoop(T, ids, userId) ==
  IF ids = <<>> THEN [tasks |-> T, count |-> 0]
  ELSE LET rest == deleteLoop(deleteTask(T, Head(ids), userId), Tail(ids), userId)
       IN [tasks |-> rest.tasks,
           count |-> rest.count + (IF Changed(T, Head(ids), userId) THEN 1 ELSE 0)]

\* for each row read before the loop: updateTask(row.id, userId, row.text,
\* row.priority, row.due_date, row.category, completed), counted when it changed a row
RECURSIVE updateLoop(_, _, _, _)
updateLoop(T, found, userId, completed) ==
  IF found = <<>> THEN [tasks |-> T, count |-> 0]
  ELSE LET task == Head(found)
           rest == updateLoop(updateTask(T, task.id, userId, task.text, task.priority,
                                         task.due_date, task.category, completed),
                              Tail(found), userId, completed)
       IN [tasks |-> rest.tasks,
           count |-> rest.count + (IF Changed(T, task.id, userId) THEN 1 ELSE 0)]

\* Array.prototype.sort((a, b) => b - a) of a list of integers
RECURSIVE sortDescending(_)
sortDescending(xs) ==
  IF xs = <<>> THEN <<>>
  ELSE LET m == CHOOSE i \in DOMAIN xs : \A j \in DOMAIN xs : xs[j] <= xs[i]
       IN <<xs[m]>> \o sortDescending(Without(xs, m))

bulkValidation(list, what, one) ==
  IF ~IsArray(list) THEN what \o " must be an array"
  ELSE IF Len(list.a) = 0 THEN "At least one " \o one \o " must be provided"
  ELSE ""

completedValidation(completed) ==
  IF ~IsBoolean(completed) THEN "Completed status must be a boolean" ELSE ""

\* indices.filter(idx => Number.isInteger(idx) && idx >= 0 && idx < tasks.length)
validIndices(indices, rows) ==
  LET ok == SelectSeq(indices, LAMBDA v : IsInteger(v) /\ v.n >= 0 /\ v.n < Len(rows))
  IN [i \in DOMAIN ok |-> ok[i].n]

\* ids.filter(id => Number.isInteger(id) && id > 0)
validIds(ids) ==
  LET ok == SelectSeq(ids, LAMBDA v : IsInteger(v) /\ v.n > 0)
  IN [i \in DOMAIN ok |-> ok[i].n]

\* app.post('/tasks/bulk-delete')
postBulkDelete(req) ==
  LET a == authenticateToken(req.auth)
      userId == a.user.userId
      indices == req.body.indices
      errors == Collect(<<bulkValidation(indices, "Indices", "index")>>)
  IN IF ~a.ok THEN {Reply(a.status, a.body)}
     ELSE IF errors # <<>> THEN {Reply(400, badRequest("Validation failed", errors))}
     ELSE {LET valid == sortDescending(validIndices(indices.a, rows))
               done == deleteLoop(tasks, [i \in DOMAIN valid |-> rows[valid[i] + 1].id], userId)
           IN IF valid = <<>>
              THEN Called(Reply(400, badRequest("Validation failed",
                                                <<"No valid indices provided">>)),
                          <<"getAllTasks">>)
              ELSE clearCategoryCache(clearTaskCache(
                     [Same EXCEPT !.tasks = done.tasks, !.status = 200,
                                  !.calls = <<"getAllTasks">> \o Times(Len(valid), "deleteTask"),
                                  !.body = [message |-> "tasks deleted", count |-> done.count]]))
           : rows \in getAllTasks(tasks, userId, Undef, Undef, Undef)}

\* app.post('/tasks/bulk-complete')
postBulkComplete(req) ==
  LET a == authenticateToken(req.auth)
      userId == a.user.userId
      indices == req.body.indices
      completed == req.body.completed
      errors == Collect(<<bulkValidation(indices, "Indices", "index"),
                          completedValidation(completed)>>)
  IN IF ~a.ok THEN {Reply(a.status, a.body)}
     ELSE IF errors # <<>> THEN {Reply(400, badRequest("Validation failed", errors))}
     ELSE {LET valid == validIndices(indices.a, rows)
               done == updateLoop(tasks, [i \in DOMAIN valid |-> rows[valid[i] + 1]],
                                  userId, completed)
           IN IF valid = <<>>
              THEN Called(Reply(400, badRequest("Validation failed",
                                                <<"No valid indices provided">>)),
                          <<"getAllTasks">>)
              ELSE clearTaskCache(
                     [Same EXCEPT !.tasks = done.tasks, !.status = 200,
                                  !.calls = <<"getAllTasks">> \o Times(Len(valid), "updateTask"),
                                  !.body = [message |-> "tasks updated", count |-> done.count]])
           : rows \in getAllTasks(tasks, userId, Undef, Undef, Undef)}

\* app.delete('/tasks')
deleteTasks(req) ==
  LET a == authenticateToken(req.auth)
      userId == a.user.userId
      ids == req.body.ids
      errors == Collect(<<bulkValidation(ids, "IDs", "task ID")>>)
      valid == validIds(ids.a)
      done == deleteLoop(tasks, valid, userId)
  IN IF ~a.ok THEN {Reply(a.status, a.body)}
     ELSE IF errors # <<>> THEN {Reply(400, badRequest("Validation failed", errors))}
     ELSE IF valid = <<>>
     THEN {Reply(400, badRequest("Validation failed", <<"No valid task IDs provided">>))}
     ELSE {clearCategoryCache(clearTaskCache(
             [Same EXCEPT !.tasks = done.tasks, !.status = 200,
                          !.calls = Times(Len(valid), "deleteTask"),
                          !.body = [deleted |-> done.count]]))}

\* the rows of `rows` that the ids of `ids` find, in the order of ids
RECURSIVE foundRows(_, _)
foundRows(rows, ids) ==
  IF ids = <<>> THEN <<>>
  ELSE (IF findTask(rows, Head(ids)) = {} THEN <<>>
        ELSE <<CHOOSE t \in findTask(rows, Head(ids)) : TRUE>>)
       \o foundRows(rows, Tail(ids))

\* app.patch('/tasks')
patchTasks(req) ==
  LET a == authenticateToken(req.auth)
      userId == a.user.userId
      ids == req.body.ids
      completed == req.body.completed
      errors == Collect(<<bulkValidation(ids, "IDs", "task ID"),
                          completedValidation(completed)>>)
      valid == validIds(ids.a)
  IN IF ~a.ok THEN {Reply(a.status, a.body)}
     ELSE IF errors # <<>> THEN {Reply(400, badRequest("Validation failed", errors))}
     ELSE IF valid = <<>>
     THEN {Reply(400, badRequest("Validation failed", <<"No valid task IDs provided">>))}
     ELSE {LET done == updateLoop(tasks, foundRows(rows, valid), userId, completed)
           IN clearTaskCache([Same EXCEPT !.tasks = done.tasks, !.status = 200,
                                          !.calls = <<"getAllTasks">>
                                            \o Times(Len(foundRows(rows, valid)), "updateTask"),
                                          !.body = [updated |-> done.count]])
           : rows \in getAllTasks(tasks, userId, Undef, Undef, Undef)}

-----------------------------------------------------------------------------
(* server.js: POST /tasks/reorder and GET /categories *)

\* app.post('/tasks/reorder'); `fault` is where the store fails, if it does
postReorder(req, fault) ==
  LET a == authenticateToken(req.auth)
      taskOrders == req.body.taskOrders
  IN IF ~a.ok THEN {Reply(a.status, a.body)}
     ELSE IF ~IsArray(taskOrders) \/ Len(taskOrders.a) = 0
     THEN {Reply(400, [error |-> "invalid taskOrders array"])}
     ELSE IF \E i \in DOMAIN taskOrders.a :
               ~IsInteger(taskOrders.a[i].id) \/ ~IsInteger(taskOrders.a[i].sort_order)
     THEN {Reply(400, [error |-> "invalid task order format"])}
     ELSE {IF ~r.resolved
           THEN [Same EXCEPT !.tasks = r.tasks, !.txOpen = r.txOpen, !.status = 500,
                             !.calls = <<"reorderTasks">>,
                             !.body = [error |-> "Internal server error"]]
           ELSE clearTaskCache(
                  [Same EXCEPT !.tasks = r.tasks, !.txOpen = r.txOpen, !.status = 200,
                               !.calls = <<"reorderTasks">>,
                               !.body = [message |-> "tasks reordered successfully"]])
           : r \in reorderTasks(tasks, txOpen, taskOrders.a, fault)}

\* `categories:${userId}`
categoryCacheKey(userId) == <<"categories", ":">> \o toString(userId)

\* app.get('/categories')
getCategories(req) ==
  LET a == authenticateToken(req.auth)
      userId == a.user.userId
      cacheKey == categoryCacheKey(userId)
      look == CacheLookup(categoryCache, cacheKey)
      categories == getAllCategories(tasks, userId)
  IN IF ~a.ok THEN {Reply(a.status, a.body)}
     ELSE IF look.hit
     THEN {[Same EXCEPT !.categoryCache = look.cache, !.status = 200,
                        !.body = [xcache |-> "HIT", data |-> look.data]]}
     ELSE {[Same EXCEPT !.categoryCache = cacheSet(look.cache, cacheKey, categories),
                        !.calls = <<"getAllCategories">>,
                        !.status = 200,
                        !.body = [xcache |-> "MISS", data |-> categories]]}

-----------------------------------------------------------------------------
(* The requests of the model *)

Alice == [username |-> S(<<"a", "l", "i">>),
          email |-> S(<<"a", "@", "b", ".", "c">>),
          password |-> S(<<"1", "2", "3", "4", "5", "6">>)]
Bob == [username |-> S(<<"b", "o", "b">>),
        email |-> S(<<"b", "@", "b", ".", "c">>),
        password |-> S(<<"6", "5", "4", "3", "2", "1">>)]

\* the headers that carry a token this server signed: one per registered user
ValidHeaders ==
  {Bearer(jwtSign(users[i].id, users[i].username, users[i].email)) : i \in DOMAIN users}

\* a token with a foreign signature, and an expired token of this server
ForgedToken == [jwtSign(1, <<"a", "l", "i">>, <<"a", "@", "b", ".", "c">>) EXCEPT !.signed = FALSE]
ExpiredToken == [jwtSign(1, <<"a", "l", "i">>, <<"a", "@", "b", ".", "c">>) EXCEPT !.expired = TRUE]
InvalidHeaders == {NoHeader, BearerOnly, Bearer(ForgedToken), Bearer(ExpiredToken)}

Query(search, category, sort) == [search |-> search, category |-> category, sort |-> sort]
TaskBody(text, priority, due_date, category) ==
  [text |-> text, priority |-> priority, due_date |-> due_date, category |-> category]
PutBody(text, priority, due_date, category, completed) ==
  [text |-> text, task |-> Undef, priority |-> priority, due_date |-> due_date,
   category |-> category, completed |-> completed]
Order(id, sort_order) == [id |-> id, sort_order |-> sort_order]

-----------------------------------------------------------------------------
(* The state machine: one action per route *)

Init ==
  /\ users = <<>>
  /\ tasks = <<>>
  /\ taskSeq = 0
  /\ txOpen = FALSE
  /\ taskCache = <<>>
  /\ categoryCache = <<>>
  /\ now = 0
  /\ creator = <<>>
  /\ inflight = <<>>
  /\ last = [req |-> [route |-> "none"], uid |-> 0, status |-> 0, body |-> Undef,
             calls |-> <<>>, before |-> <<>>]

\* the user a request acts for: the userId of its token, 0 without a valid token
Caller(req) ==
  IF "auth" \in DOMAIN req /\ authenticateToken(req.auth).ok
  THEN authenticateToken(req.auth).user.userId
  ELSE 0

\* the request req is handled with one of the outcomes outs
Handle(req, outs) ==
  \E out \in outs :
    /\ users' = out.users
    /\ tasks' = out.tasks
    /\ taskSeq' = out.taskSeq
    /\ txOpen' = out.txOpen
    /\ taskCache' = out.taskCache
    /\ categoryCache' = out.categoryCache
    /\ creator' = out.creator
    /\ last' = [req |-> req, uid |-> Caller(req), status |-> out.status,
                 body |-> out.body, calls |-> out.calls, before |-> tasks]
    /\ now' = now
    /\ inflight' = inflight

Register(bodies) ==
  \E b \in bodies :
    LET req == [route |-> "POST /auth/register", body |-> b] IN Handle(req, postRegister(req))

Login(bodies) ==
  \E b \in bodies :
    LET req == [route |-> "POST /auth/login", body |-> b] IN Handle(req, postLogin(req))

GetMe(headers) ==
  \E h \in headers :
    LET req == [route |-> "GET /auth/me", auth |-> h] IN Handle(req, getMe(req))

GetTasks(headers, queries) ==
  \E h \in headers, q \in queries :
    LET req == [route |-> "GET /tasks", auth |-> h, query |-> q] IN Handle(req, getTasks(req))

PostTasks(headers, bodies, cap) ==
  /\ taskSeq < cap
  /\ \E h \in headers, b \in bodies :
       LET req == [route |-> "POST /tasks", auth |-> h, body |-> b]
       IN Handle(req, postTasks(req))

DeleteTask(headers, params) ==
  \E h \in headers, x \in params :
    LET req == [route |-> "DELETE /tasks/:id", auth |-> h, param |-> x]
    IN Handle(req, deleteTaskId(req))

PutTask(headers, params, bodies) ==
  \E h \in headers, x \in params, b \in bodies :
    LET req == [route |-> "PUT /tasks/:id", auth |-> h, param |-> x, body |-> b]
    IN Handle(req, putTaskId(req))

PatchTask(headers, params, bodies) ==
  \E h \in headers, x \in params, b \in bodies :
    LET req == [route |-> "PATCH /tasks/:id", auth |-> h, param |-> x, body |-> b]
    IN Handle(req, patchTaskId(req))

PatchToggle(headers, params) ==
  \E h \in headers, x \in params :
    LET req == [route |-> "PATCH /tasks/:index/toggle", auth |-> h, param |-> x]
    IN Handle(req, patchTaskIndexToggle(req))

BulkDelete(headers, bodies) ==
  \E h \in headers, b \in bodies :
    LET req == [route |-> "POST /tasks/bulk-delete", auth |-> h, body |-> b]
    IN Handle(req, postBulkDelete(req))

BulkComplete(headers, bodies) ==
  \E h \in headers, b \in bodies :
    LET req == [route |-> "POST /tasks/bulk-complete", auth |-> h, body |-> b]
    IN Handle(req, postBulkComplete(req))

DeleteTasks(headers, bodies) ==
  \E h \in headers, b \in bodies :
    LET req == [route |-> "DELETE /tasks", auth |-> h, body |-> b]
    IN Handle(req, deleteTasks(req))

PatchTasks(headers, bodies) ==
  \E h \in headers, b \in bodies :
    LET req == [route |-> "PATCH /tasks", auth |-> h, body |-> b]
    IN Handle(req, patchTasks(req))

Reorder(headers, bodies, faults) ==
  \E h \in headers, b \in bodies, f \in faults :
    LET req == [route |-> "POST /tasks/reorder", auth |-> h, body |-> b, fault |-> f]
    IN Handle(req, postReorder(req, f))

GetCategories(headers) ==
  \E h \in headers :
    LET req == [route |-> "GET /categories", auth |-> h] IN Handle(req, getCategories(req))

\* a tick of the clock
Tick(cap) ==
  /\ now < cap
  /\ now' = now + 1
  /\ UNCHANGED <<users, tasks, taskSeq, txOpen, taskCache, categoryCache, creator, inflight,
                 last>>

-----------------------------------------------------------------------------
(* Spec: the task routes used by two registered users *)

TextA == S(<<"a">>)
TextB == S(<<"b">>)
CatC == S(<<"c">>)
One == <<"1">>
Two == <<"2">>
Three == <<"3">>

SpecQueries == {Query(TextA, Undef, S(<<"manual">>))}
SpecTaskBodies == {TaskBody(TextA, Undef, Undef, Undef)}
SpecParams == {One, Two}
SpecPutBodies == {PutBody(TextA, Undef, Undef, Undef, B(TRUE))}
SpecPatchBodies == {[completed |-> Undef]}
\* bodies that fail validation: a PUT without text, a PATCH whose completed is a number
InvalidPutBodies == {PutBody(Undef, Undef, Undef, Undef, Undef)}
InvalidPatchBodies == {[completed |-> N(1)]}
SpecReorderBodies ==
  {[taskOrders |-> A(<<Order(N(1), N(2)), Order(N(9), N(1))>>)],
   [taskOrders |-> A(<<Order(N(1), N(3)), Order(S(<<"x">>), N(1))>>)]}

Next ==
  \/ Register({Alice, Bob})
  \/ GetTasks(ValidHeaders, SpecQueries)
  \/ PostTasks(ValidHeaders, SpecTaskBodies, MaxTasks)
  \/ DeleteTask(ValidHeaders, SpecParams)
  \/ PutTask(ValidHeaders, SpecParams, SpecPutBodies)
  \/ PutTask(ValidHeaders, {One}, InvalidPutBodies)
  \/ PatchTask(ValidHeaders, SpecParams, SpecPatchBodies)
  \/ PatchTask(ValidHeaders, {Two}, InvalidPatchBodies)
  \/ Reorder(ValidHeaders, SpecReorderBodies, {NoFault})

Spec == Init /\ [][Next]_vars

\* the routes that address one task by its id
ByIdRoutes == {"DELETE /tasks/:id", "PUT /tasks/:id", "PATCH /tasks/:id"}

\* the id in x is valid-shaped and names no task of user userId
Unowned(x, userId) ==
  /\ isValidTaskId(x)
  /\ \A i \in DOMAIN tasks : i = parseInt(x).n => tasks[i].user_id # userId

\* the body of by-id request req passes the validation its route runs before
\* it looks the task up (DELETE reads no body)
ByIdBodyValid(req) ==
  CASE req.route = "DELETE /tasks/:id" -> TRUE
    [] req.route = "PUT /tasks/:id" -> putValidation(req.body) = <<>>
    [] req.route = "PATCH /tasks/:id" ->
         req.body.completed = Undef \/ IsBoolean(req.body.completed)

-----------------------------------------------------------------------------
(* Claims checked under Spec *)

\* C1: every task in a list that GET /tasks returned, from the cache or from
\* the store, was created by the user the list was returned to.
C1_CrossUserIsolation ==
  (last.req.route = "GET /tasks" /\ last.status = 200) =>
    \A i \in DOMAIN last.body.data : creator[last.body.data[i].id] = last.uid

\* C1 happens: a user who searched was answered from the cache with a list of
\* their own tasks while the store also holds a task of the other user
C1_Witness ==
  /\ last.req.route = "GET /tasks" /\ last.status = 200
  /\ last.req.query.search = TextA
  /\ last.body.xcache = "HIT"
  /\ Len(last.body.data) > 0
  /\ \E i \in DOMAIN tasks : tasks[i].user_id # last.uid

\* C2: a reorder request never changes the sort_order of a task that belongs
\* to a user other than the caller.
C2_ReorderOwnTasksOnly ==
  [][last'.req.route = "POST /tasks/reorder" =>
       \A i \in DOMAIN tasks :
         tasks[i].user_id # last'.uid =>
           i \in DOMAIN tasks' /\ tasks'[i].sort_order = tasks[i].sort_order]_vars

\* C3 as stated: DELETE, PUT and PATCH /tasks/:id with a valid-shaped id that
\* names no task of the caller are answered 404 and change no stored task.
C3_UnownedIs404 ==
  [][(last'.req.route \in ByIdRoutes /\ last'.uid # 0
        /\ Unowned(last'.req.param, last'.uid)) =>
       last'.status = 404 /\ tasks' = tasks]_vars

\* C3 amended: such a request changes no stored task; it is answered 404 when
\* its body passes the route's validation and 400 when it does not.
C3_UnownedIs404OrInvalid ==
  [][(last'.req.route \in ByIdRoutes /\ last'.uid # 0
        /\ Unowned(last'.req.param, last'.uid)) =>
       /\ tasks' = tasks
       /\ last'.status = IF ByIdBodyValid(last'.req) THEN 404 ELSE 400]_vars

\* C3 happens: a user's PUT that names the task of another user was answered
\* 404, and that task is still stored
C3_Witness ==
  /\ last.req.route = "PUT /tasks/:id" /\ last.status = 404
  /\ \E i \in DOMAIN tasks : toString(i) = last.req.param /\ tasks[i].user_id # last.uid

\* an entry of a reorder batch carries an invalid id: no integer, or an integer
\* that names no stored task
InvalidOrderId(item) == ~IsInteger(item.id) \/ item.id.n \notin DOMAIN tasks

\* C5: a reorder batch with an entry whose id is invalid changes no task's
\* sort_order.
C5_InvalidIdChangesNothing ==
  [][(last'.req.route = "POST /tasks/reorder" /\ last'.uid # 0
        /\ IsArray(last'.req.body.taskOrders)
        /\ \E k \in DOMAIN last'.req.body.taskOrders.a :
             InvalidOrderId(last'.req.body.taskOrders.a[k])) =>
       \A i \in DOMAIN tasks :
         i \in DOMAIN tasks' /\ tasks'[i].sort_order = tasks[i].sort_order]_vars

-----------------------------------------------------------------------------
(* SpecReorder: one user reorders their tasks while the store may fail *)

ReorderBodies ==
  {[taskOrders |-> A(<<Order(N(1), N(2)), Order(N(2), N(1))>>)],
   [taskOrders |-> A(<<Order(N(2), N(3))>>)]}

\* the longest batch of ReorderBodies
ReorderFaults == Faults(2)

NextReorder ==
  \/ Register({Alice})
  \/ PostTasks(ValidHeaders, SpecTaskBodies, MaxTasks)
  \/ GetTasks(ValidHeaders, {Query(Undef, Undef, S(<<"manual">>))})
  \/ Reorder(ValidHeaders, ReorderBodies, ReorderFaults)

SpecReorder == Init /\ [][NextReorder]_vars

\* the store fails in a statement of the batch, in finalize or in COMMIT
FailsInBatch(f, taskOrders) ==
  \/ f.at \in {"finalize", "commit"}
  \/ f.at = "statement" /\ f.k <= Len(taskOrders)

\* C4: when reorderTasks is called outside a transaction and a statement of
\* the batch, the finalize or the commit fails, it rejects, every sort_order
\* is what it was and no transaction is open; when it resolves, every listed
\* task that exists has the sort_order the batch asks for.
C4_ReorderAllOrNothing ==
  [][(last'.req.route = "POST /tasks/reorder" /\ last'.status \in {200, 500} /\ ~txOpen) =>
       LET taskOrders == last'.req.body.taskOrders.a
       IN /\ FailsInBatch(last'.req.fault, taskOrders) =>
               /\ last'.status = 500
               /\ ~txOpen'
               /\ \A i \in DOMAIN tasks :
                    i \in DOMAIN tasks' /\ tasks'[i].sort_order = tasks[i].sort_order
          /\ last'.status = 200 =>
               \A k \in DOMAIN taskOrders :
                 taskOrders[k].id.n \in DOMAIN tasks =>
                   tasks'[taskOrders[k].id.n].sort_order = taskOrders[k].sort_order.n]_vars

\* C4 goes wrong: a reorder was answered 500 and the connection is left inside
\* a transaction, with a sort_order that differs from the one the task was
\* created with
C4_Witness ==
  /\ last.req.route = "POST /tasks/reorder" /\ last.status = 500
  /\ last.req.fault.at = "commit"
  /\ txOpen
  /\ \E i \in DOMAIN tasks : tasks[i].sort_order # i

-----------------------------------------------------------------------------
(* SpecGate: every protected route, with and without valid credentials *)

ProtectedRoutes ==
  {"GET /auth/me", "GET /tasks", "POST /tasks", "DELETE /tasks/:id", "PUT /tasks/:id",
   "PATCH /tasks/:id", "PATCH /tasks/:index/toggle", "POST /tasks/bulk-delete",
   "POST /tasks/bulk-complete", "DELETE /tasks", "PATCH /tasks", "POST /tasks/reorder",
   "GET /categories"}

GateHeaders == ValidHeaders \cup InvalidHeaders
GateIndices == [indices |-> A(<<N(0)>>), completed |-> B(TRUE)]
GateIds == [ids |-> A(<<N(1)>>), completed |-> B(TRUE)]

NextGate ==
  \/ Register({Alice})
  \/ GetMe(GateHeaders)
  \/ GetTasks(GateHeaders, {Query(Undef, Undef, Undef)})
  \/ PostTasks(GateHeaders, {TaskBody(TextA, Undef, Undef, CatC)}, MaxTasks)
  \/ DeleteTask(GateHeaders, {One})
  \/ PutTask(GateHeaders, {One}, {PutBody(TextB, Undef, Undef, Undef, Undef)})
  \/ PatchTask(GateHeaders, {One}, SpecPatchBodies)
  \/ PatchToggle(GateHeaders, {<<"0">>})
  \/ BulkDelete(GateHeaders, {GateIndices})
  \/ BulkComplete(GateHeaders, {GateIndices})
  \/ DeleteTasks(GateHeaders, {GateIds})
  \/ PatchTasks(GateHeaders, {GateIds})
  \/ Reorder(GateHeaders, {[taskOrders |-> A(<<Order(N(1), N(2))>>)]}, {NoFault})
  \/ GetCategories(GateHeaders)

SpecGate == Init /\ [][NextGate]_vars

\* C6: a request to a protected route without Authorization header is
\* answered 401 with type AUTHENTICATION_ERROR, and handling it changes no
\* user, no task and no cache.
C6_NoHeaderIs401 ==
  [][(last'.req.route \in ProtectedRoutes /\ last'.req.auth = NoHeader) =>
       /\ last'.status = 401
       /\ last'.body.type = "AUTHENTICATION_ERROR"
       /\ UNCHANGED <<users, tasks, taskSeq, txOpen, taskCache, categoryCache>>]_vars

\* C6 happens: a bulk delete without Authorization header was answered 401
\* while the user has a task stored and a list cached
C6_Witness ==
  /\ last.req.route = "POST /tasks/bulk-delete" /\ last.req.auth = NoHeader
  /\ last.status = 401
  /\ DOMAIN tasks # {}
  /\ taskCache # <<>>

\* the response l is a 401 of the authentication of a protected route
AuthFailure(l) ==
  l.req.route \in ProtectedRoutes /\ l.status = 401 /\ l.req.auth \in InvalidHeaders

\* C7: two authentication failures in a row are answered with the same body
\* (type, code and message), whatever made the authentication fail.
C7_SameBodyForEveryFailure ==
  [][(AuthFailure(last) /\ AuthFailure(last')) => last'.body = last.body]_vars

-----------------------------------------------------------------------------
(* SpecOrder: one user's list in its two orders, while the clock advances *)

OrderBodies ==
  {TaskBody(TextA, Undef, Undef, Undef), TaskBody(TextA, S(<<"low">>), Undef, Undef)}
OrderQueries == {Query(Undef, Undef, Undef), Query(Undef, Undef, S(<<"manual">>))}

NextOrder ==
  \/ Register({Alice})
  \/ PostTasks(ValidHeaders, OrderBodies, MaxTasks)
  \/ PatchTask(ValidHeaders, SpecParams, SpecPatchBodies)
  \/ Reorder(ValidHeaders, {[taskOrders |-> A(<<Order(N(1), N(2))>>)]}, {NoFault})
  \/ GetTasks(ValidHeaders, OrderQueries)
  \/ Tick(MaxClock)

SpecOrder == Init /\ [][NextOrder]_vars

\* the rank the ordering gives a priority
ClaimRank(p) ==
  CASE p = S(<<"high">>) -> 1 [] p = S(<<"medium">>) -> 2 [] p = S(<<"low">>) -> 3

\* the listed task a may stand before the listed task b in sort mode `sort`
MayPrecede(a, b, sort) ==
  LET ca == IF a.completed THEN 1 ELSE 0
      cb == IF b.completed THEN 1 ELSE 0
  IN \/ ca < cb
     \/ /\ ca = cb
        /\ IF sort = S(<<"manual">>)
           THEN a.sort_order <= b.sort_order
           ELSE \/ ClaimRank(a.priority) < ClaimRank(b.priority)
                \/ /\ ClaimRank(a.priority) = ClaimRank(b.priority)
                   /\ tasks[a.id].created_at <= tasks[b.id].created_at

\* the list `data` holds each task of user uid once, in the order of sort mode
\* `sort`
ListedInOrder(data, uid, sort) ==
  /\ {data[i].id : i \in DOMAIN data} = {i \in DOMAIN tasks : tasks[i].user_id = uid}
  /\ \A i, j \in DOMAIN data : i < j => data[i].id # data[j].id
  /\ \A i, j \in DOMAIN data : i < j => MayPrecede(data[i], data[j], sort)

\* the lists GET /tasks may answer header h and query q with
Listings(h, q) ==
  {out.body.data : out \in getTasks([route |-> "GET /tasks", auth |-> h, query |-> q])}

-----------------------------------------------------------------------------
(* SpecAuth: registration and login *)

\* Alice's email in capitals and with spaces around, under another username
AliceShout == [username |-> S(<<"c", "a", "t">>),
               email |-> S(<<" ", "A", "@", "B", ".", "C", " ">>),
               password |-> S(<<"1", "2", "3", "4", "5", "6">>)]
\* Alice's username with spaces around, under another email
AliceTwin == [username |-> S(<<" ", "a", "l", "i", " ">>),
              email |-> S(<<"c", "@", "b", ".", "c">>),
              password |-> S(<<"1", "2", "3", "4", "5", "6">>)]
\* Alice with a password that is too short
AliceShort == [Alice EXCEPT !.password = S(<<"1", "2", "3">>)]

RegisterBodies == {Alice, Bob, AliceShout, AliceTwin, AliceShort}

Credentials(email, password) == [email |-> email, password |-> password]
LoginBodies ==
  {Credentials(Alice.email, Alice.password),
   Credentials(AliceShout.email, Alice.password),
   Credentials(Alice.email, Bob.password),
   Credentials(Bob.email, Bob.password),
   Credentials(S(<<"d", "@", "b", ".", "c">>), Alice.password),
   Credentials(Alice.email, Undef)}

NextAuth ==
  \/ Register(RegisterBodies)
  \/ Login(LoginBodies)
  \/ GetMe(ValidHeaders \cup {NoHeader})

SpecAuth == Init /\ [][NextAuth]_vars

\* the users whose stored email is the one the login body gives
FoundByEmail(b) ==
  {i \in DOMAIN users : users[i].email = toLowerCase(trim(b.email.s))}

\* the generic answer to a failed login
InvalidCredentials ==
  [type |-> "AUTHENTICATION_ERROR", message |-> "Invalid credentials", code |-> 401]

\* C8: a login that passes validation is answered 401 with the one body
\* 'Invalid credentials' both when no user has the email and when the user who
\* has it has another password; a token is issued only to the user found by
\* the email, and only when the password is the one whose hash is stored.
C8_LoginGeneric401 ==
  \A b \in LoginBodies :
    loginValidation(b) = <<>> =>
      \A out \in postLogin([route |-> "POST /auth/login", body |-> b]) :
        LET matching == {i \in FoundByEmail(b) :
                           users[i].password_hash = bcryptHash(b.password.s)}
        IN IF matching = {}
           THEN out.status = 401 /\ out.body = InvalidCredentials
           ELSE /\ out.status = 200
                /\ out.body.token.userId \in matching
                /\ out.users = users

\* C8 happens: a login with a known email and a wrong password was answered 401
C8_Witness ==
  /\ last.req.route = "POST /auth/login" /\ last.status = 401
  /\ FoundByEmail(last.req.body) # {}
  /\ \E b \in LoginBodies :
       /\ loginValidation(b) = <<>>
       /\ FoundByEmail(b) = {}

\* no two users share a username or an email
UniqueUsers ==
  \A i, j \in DOMAIN users :
    i # j => users[i].username # users[j].username /\ users[i].email # users[j].email

\* the username or the email of registration body b, as the handler normalises
\* them, is that of a stored user
AlreadyRegistered(b) ==
  \E i \in DOMAIN users :
    \/ users[i].email = toLowerCase(trim(b.email.s))
    \/ users[i].username = trim(b.username.s)

\* C9 as stated: no two users share a username or an email, and a registration
\* whose email or username is already registered is answered 409, creates no
\* user and issues no token.
C9_DuplicateIs409 ==
  /\ UniqueUsers
  /\ \A b \in RegisterBodies :
       AlreadyRegistered(b) =>
         \A out \in postRegister([route |-> "POST /auth/register", body |-> b]) :
           out.status = 409 /\ out.users = users /\ "token" \notin DOMAIN out.body

\* C9 amended: no two users share a username or an email, and a registration
\* whose email or username is already registered creates no user and issues no
\* token; it is answered 409 when it passes validation and 400 when it does not.
C9_DuplicateIs409OrInvalid ==
  /\ UniqueUsers
  /\ \A b \in RegisterBodies :
       AlreadyRegistered(b) =>
         \A out \in postRegister([route |-> "POST /auth/register", body |-> b]) :
           /\ out.status = IF registerValidation(b) = <<>> THEN 409 ELSE 400
           /\ out.users = users
           /\ "token" \notin DOMAIN out.body

\* C9 happens: a registration with the email of a stored user, written in
\* capitals, was answered 409
C9_Witness ==
  /\ last.req.route = "POST /auth/register" /\ last.status = 409
  /\ last.req.body = AliceShout
  /\ \E i \in DOMAIN users : users[i].username = Alice.username.s
-----------------------------------------------------------------------------
(* SpecCache: two users read their lists between writes through every write
   route, id-based, index-based and bulk *)

Zero == <<"0">>
CacheQueries == {Query(Undef, Undef, Undef)}
CacheIndices == [indices |-> A(<<N(0)>>), completed |-> B(TRUE)]
CacheIds == [ids |-> A(<<N(1)>>), completed |-> B(TRUE)]

NextCache ==
  \/ Register({Alice, Bob})
  \/ GetTasks(ValidHeaders, CacheQueries)
  \/ PostTasks(ValidHeaders, SpecTaskBodies, MaxTasks)
  \/ DeleteTask(ValidHeaders, {One, Zero})
  \/ PutTask(ValidHeaders, {One, Zero}, {PutBody(TextB, Undef, Undef, Undef, Undef)})
  \/ PatchTask(ValidHeaders, {One}, SpecPatchBodies)
  \/ PatchToggle(ValidHeaders, {Zero})
  \/ BulkDelete(ValidHeaders, {CacheIndices})
  \/ BulkComplete(ValidHeaders, {CacheIndices})
  \/ DeleteTasks(ValidHeaders, {CacheIds})
  \/ PatchTasks(ValidHeaders, {CacheIds})
  \/ Reorder(ValidHeaders, {[taskOrders |-> A(<<Order(N(1), N(2))>>)]}, {NoFault})

SpecCache == Init /\ [][NextCache]_vars

\* the routes that write tasks
WriteRoutes == ProtectedRoutes \ {"GET /auth/me", "GET /tasks", "GET /categories"}

\* the response l answers a write that succeeded
SuccessfulWrite(l) == l.req.route \in WriteRoutes /\ l.status \in {200, 201, 204}

\* the lists the store query answers user uid and query q with, as GET /tasks
\* formats them
StoreListings(uid, q) ==
  {[i \in DOMAIN rows |-> formatTask(rows[i])] :
     rows \in getAllTasks(tasks, uid, q.search, q.category, q.sort)}

-----------------------------------------------------------------------------
(* SpecBulk: two users delete and complete tasks in bulk, by id and by index,
   with lists that hold valid, repeated, invalid, unowned and unknown entries *)

BulkRoutes ==
  {"POST /tasks/bulk-delete", "POST /tasks/bulk-complete", "DELETE /tasks", "PATCH /tasks"}
BulkDeleteRoutes == {"POST /tasks/bulk-delete", "DELETE /tasks"}
BulkIdRoutes == {"DELETE /tasks", "PATCH /tasks"}

BulkIdLists ==
  {<<N(1), N(2)>>, <<N(1), N(1)>>, <<N(9), S(<<"x">>), N(0), N(2)>>, <<N(0), Frac>>}
BulkIndexLists ==
  {<<N(0), N(1)>>, <<N(0), N(0)>>, <<N(5), N(0 - 1), S(<<"x">>), N(0)>>, <<N(7)>>}
BulkIdBodies == {[ids |-> A(l), completed |-> B(TRUE)] : l \in BulkIdLists}
BulkIndexBodies == {[indices |-> A(l), completed |-> B(TRUE)] : l \in BulkIndexLists}

NextBulk ==
  \/ Register({Alice, Bob})
  \/ PostTasks(ValidHeaders, SpecTaskBodies, MaxTasks)
  \/ BulkDelete(ValidHeaders, BulkIndexBodies)
  \/ BulkComplete(ValidHeaders, BulkIndexBodies)
  \/ DeleteTasks(ValidHeaders, BulkIdBodies)
  \/ PatchTasks(ValidHeaders, BulkIdBodies)

SpecBulk == Init /\ [][NextBulk]_vars

\* the entries of the list of bulk request req
BulkList(req) == IF req.route \in BulkIdRoutes THEN req.body.ids.a ELSE req.body.indices.a

\* the ids of the stored tasks of user uid
OwnIds(uid) == {i \in DOMAIN tasks : tasks[i].user_id = uid}

\* entry v of bulk request req is valid and names a stored task of user uid:
\* a positive integer that is the id of one, or a position in the user's list
NamesOwnTask(req, v, uid) ==
  /\ IsInteger(v)
  /\ IF req.route \in BulkIdRoutes
     THEN v.n > 0 /\ v.n \in OwnIds(uid)
     ELSE v.n >= 0 /\ v.n < Cardinality(OwnIds(uid))

\* the places of the list of req whose entry is valid and names a task of uid
CountedEntries(req, uid) ==
  {k \in DOMAIN BulkList(req) : NamesOwnTask(req, BulkList(req)[k], uid)}

\* the count the response l of a bulk route reports
ReportedCount(l) ==
  CASE l.req.route = "DELETE /tasks" -> l.body.deleted
    [] l.req.route = "PATCH /tasks" -> l.body.updated
    [] OTHER -> l.body.count

-----------------------------------------------------------------------------
(* SpecFields: two users create tasks with and without the optional fields,
   update them with PUT /tasks/:id, reorder them and list them *)

\* a text with spaces around, an empty due date, a category of one space
TextPadded == S(<<" ", "a", " ">>)
DateD == S(<<"2030-01-01">>)
Empty == S(<<>>)
Blank == S(<<" ">>)

FieldTaskBodies ==
  {TaskBody(TextPadded, S(<<"low">>), DateD, CatC),
   TaskBody(TextA, Undef, Empty, Blank)}
FieldPutBodies ==
  {PutBody(TextB, Undef, Undef, Undef, Undef),
   PutBody(TextB, S(<<"high">>), Null, CatC, B(TRUE))}
FieldReorderBodies ==
  {[taskOrders |-> A(<<Order(N(1), N(0))>>)],
   [taskOrders |-> A(<<Order(N(1), N(0 - 2)), Order(N(2), N(5))>>)]}

NextFields ==
  \/ Register({Alice, Bob})
  \/ PostTasks(ValidHeaders, FieldTaskBodies, MaxTasks)
  \/ PutTask(ValidHeaders, {One}, FieldPutBodies)
  \/ Reorder(ValidHeaders, FieldReorderBodies, {NoFault})
  \/ GetTasks(ValidHeaders, {Query(Undef, Undef, Undef)})

SpecFields == Init /\ [][NextFields]_vars

\* the response l answers a PUT /tasks/:id that updated the task
PutUpdated(l) ==
  l.req.route = "PUT /tasks/:id" /\ l.status = 200 /\ "id" \in DOMAIN l.body

\* C13: a PUT /tasks/:id that updates task id leaves every other task as it
\* was, leaves the id, owner, sort_order and creation time of the task as they
\* were, and leaves priority, due_date, category and completed as they were
\* when the body does not give them.
C13_OnlySuppliedFieldsChange ==
  [][PutUpdated(last') =>
       LET id == last'.body.id
           b == last'.req.body
       IN /\ DOMAIN tasks' = DOMAIN tasks
          /\ \A i \in DOMAIN tasks : i # id => tasks'[i] = tasks[i]
          /\ tasks'[id].id = tasks[id].id
          /\ tasks'[id].user_id = tasks[id].user_id
          /\ tasks'[id].sort_order = tasks[id].sort_order
          /\ tasks'[id].created_at = tasks[id].created_at
          /\ b.priority = Undef => tasks'[id].priority = tasks[id].priority
          /\ b.due_date = Undef => tasks'[id].due_date = tasks[id].due_date
          /\ b.category = Undef => tasks'[id].category = tasks[id].category
          /\ b.completed = Undef => tasks'[id].completed = tasks[id].completed]_vars

\* C13 goes wrong: a PUT /tasks/:id without category was answered 200 and the
\* task, which had a category before, has none now
C13_Witness ==
  /\ PutUpdated(last)
  /\ last.req.body.category = Undef
  /\ last.before[last.body.id].category = CatC
  /\ tasks[last.body.id].category = Null

\* C14: the body of a PUT /tasks/:id answered 200 carries the id, text,
\* priority, due_date, category and completed that are stored for the task
\* after the update.
C14_PutReturnsStoredTask ==
  PutUpdated(last) =>
    LET row == tasks[last.body.id]
    IN /\ last.body.id = row.id
       /\ last.body.text = row.text
       /\ last.body.priority = row.priority
       /\ last.body.due_date = row.due_date
       /\ last.body.category = row.category
       /\ last.body.completed = B(row.completed # 0)

\* C14 goes wrong: a PUT /tasks/:id without priority was answered 200 with
\* priority 'medium' while the task is stored with priority 'low'
C14_Witness ==
  /\ PutUpdated(last)
  /\ last.req.body.priority = Undef
  /\ last.body.priority = S(<<"medium">>)
  /\ tasks[last.body.id].priority = S(<<"low">>)

\* the largest of a non-empty set of integers
MaxOf(xs) == CHOOSE m \in xs : \A x \in xs : x <= m

\* C15: the task a POST /tasks creates gets sort_order 1 when the caller has
\* no task, and otherwise 1 + the largest sort_order of the caller's tasks,
\* whatever the sort_order values of the tasks of other users.
C15_NextSortOrder ==
  [][(last'.req.route = "POST /tasks" /\ last'.status = 201) =>
       LET own == {tasks[i].sort_order : i \in {j \in DOMAIN tasks : tasks[j].user_id = last'.uid}}
       IN tasks'[last'.body.id].sort_order = IF own = {} THEN 1 ELSE 1 + MaxOf(own)]_vars

\* C15 happens: a user whose only task was reordered to sort_order -2 created
\* a task, which got sort_order -1
C15_Witness ==
  /\ last.req.route = "POST /tasks" /\ last.status = 201
  /\ tasks[last.body.id].sort_order = 0 - 1
  /\ \E i \in DOMAIN tasks : tasks[i].user_id = last.uid /\ tasks[i].sort_order = 0 - 2

\* C16: when a user's GET /tasks follows their POST /tasks that was answered
\* 201, the list holds the created task with the text, priority, due_date and
\* category the 201 reported, and completed false.
C16_CreateThenList ==
  [][(/\ last.req.route = "POST /tasks" /\ last.status = 201
      /\ last'.req.route = "GET /tasks" /\ last'.status = 200
      /\ last'.uid = last.uid) =>
       \E i \in DOMAIN last'.body.data :
         LET listed == last'.body.data[i]
         IN /\ listed.id = last.body.id
            /\ listed.text = last.body.text
            /\ listed.priority = last.body.priority
            /\ listed.due_date = last.body.due_date
            /\ listed.category = last.body.category
            /\ listed.completed = FALSE]_vars

\* C16 goes wrong: a task created with an empty due_date, for which the 201
\* reported due_date null, is listed with the empty string as its due_date
C16_Witness ==
  /\ last.req.route = "GET /tasks" /\ last.status = 200
  /\ \E i \in DOMAIN last.body.data :
       /\ last.body.data[i].due_date = Empty
       /\ last.body.data[i].category = Null
-----------------------------------------------------------------------------
(* SpecToggle: two users toggle the completion of their tasks, by id and by
   position in the default-ordered list *)

NextToggle ==
  \/ Register({Alice, Bob})
  \/ PostTasks(ValidHeaders, OrderBodies, MaxTasks)
  \/ PatchTask(ValidHeaders, SpecParams, SpecPatchBodies)
  \/ PatchToggle(ValidHeaders, {Zero, One})

SpecToggle == Init /\ [][NextToggle]_vars

\* the response l answers a PATCH /tasks/:id without `completed` that toggled
ToggledById(l) ==
  l.req.route = "PATCH /tasks/:id" /\ l.req.body.completed = Undef /\ l.status = 204

\* the response l answers a PATCH /tasks/:index/toggle that toggled
ToggledByIndex(l) == l.req.route = "PATCH /tasks/:index/toggle" /\ l.status = 200

\* the tasks whose completed differs between the tables T1 and T2
Flipped(T1, T2) == {i \in DOMAIN T1 : T2[i].completed # T1[i].completed}

\* C17: when a PATCH /tasks/:id without `completed` that toggled a task is
\* followed by the same request of the same user, the tasks table is again
\* what it was before the first of the two: the task has its original
\* completed value and nothing else has changed.
C17_ToggleTwiceById ==
  [][(/\ ToggledById(last) /\ ToggledById(last')
      /\ last'.uid = last.uid /\ last'.req.param = last.req.param) =>
       tasks' = last.before]_vars

\* C17 happens: a PATCH /tasks/:id without `completed` made a completed task
\* of one user incomplete again while the other user has a task
C17_Witness ==
  /\ ToggledById(last)
  /\ \E i \in DOMAIN tasks :
       /\ toString(i) = last.req.param
       /\ last.before[i].completed = 1 /\ tasks[i].completed = 0
  /\ \E i \in DOMAIN tasks : tasks[i].user_id # last.uid

\* C18 as stated: when a PATCH /tasks/:index/toggle that toggled is followed
\* by the same request of the same user, the tasks table is again what it was
\* before the first of the two, whatever the caller's list.
C18_ToggleTwiceByIndex ==
  [][(/\ ToggledByIndex(last) /\ ToggledByIndex(last')
      /\ last'.uid = last.uid /\ last'.req.param = last.req.param) =>
       tasks' = last.before]_vars

\* C18 amended: each of the two requests flips the completed value of one task
\* of the caller and changes nothing else; the tasks table is again what it
\* was before the first when both flip the same task, as they do when the
\* caller has a single task.
C18_ToggleTwiceSameTask ==
  [][(/\ ToggledByIndex(last) /\ ToggledByIndex(last')
      /\ last'.uid = last.uid /\ last'.req.param = last.req.param) =>
       /\ Cardinality(Flipped(tasks, tasks')) = 1
       /\ \A i \in Flipped(tasks, tasks') : tasks[i].user_id = last'.uid
       /\ \A i \in DOMAIN tasks :
            tasks'[i] = [tasks[i] EXCEPT !.completed = tasks'[i].completed]
       /\ Flipped(tasks, tasks') = Flipped(last.before, tasks) => tasks' = last.before
       /\ Cardinality(OwnIds(last'.uid)) = 1 => tasks' = last.before]_vars

\* C18 happens: the second of two toggles of index 0 completed the task of low
\* priority, after the first had completed the task of medium priority and so
\* moved it behind the other
C18_Witness ==
  /\ ToggledByIndex(last) /\ last.req.param = Zero
  /\ \E i, j \in OwnIds(last.uid) :
       /\ tasks[i].priority = S(<<"medium">>) /\ tasks[j].priority = S(<<"low">>)
       /\ last.before[i].completed = 1 /\ last.before[j].completed = 0
       /\ tasks[i].completed = 1 /\ tasks[j].completed = 1
-----------------------------------------------------------------------------
(* SpecRoute: DELETE and PUT /tasks/:x with path segments that are ids, that
   are positions, and that are neither *)

\* '1', '2', '9' are ids; '0', '01', '1a' are read as positions; 'a' and '-1'
\* are no positions
RouteParams ==
  {One, Two, <<"9">>, Zero, <<"0", "1">>, <<"1", "a">>, <<"a">>, <<"-", "1">>}

NextRoute ==
  \/ Register({Alice, Bob})
  \/ PostTasks(ValidHeaders, OrderBodies, MaxTasks)
  \/ DeleteTask(ValidHeaders, RouteParams)
  \/ PutTask(ValidHeaders, RouteParams, {PutBody(TextB, Undef, Undef, Undef, Undef)})

SpecRoute == Init /\ [][NextRoute]_vars

\* x is the canonical decimal form of a positive integer: decimal digits, the
\* first of them not 0
Canonical(x) == x # <<>> /\ x[1] # "0" /\ \A i \in DOMAIN x : IsDigit(x[i])

\* the tasks that table T2 holds otherwise than table T1, or no longer holds
Touched(T1, T2) == {i \in DOMAIN T1 : i \notin DOMAIN T2 \/ T2[i] # T1[i]}

\* the id-based handler answered: no list was fetched; a task of the caller
\* with that id is the only one touched, and without such a task the answer
\* is 404 and nothing is touched
HandledById(l, T1, T2) ==
  LET n == DigitsValue(l.req.param)
  IN /\ \A k \in DOMAIN l.calls : l.calls[k] # "getAllTasks"
     /\ IF n \in DOMAIN T1 /\ T1[n].user_id = l.uid
        THEN /\ l.status = IF l.req.route = "DELETE /tasks/:id" THEN 204 ELSE 200
             /\ Touched(T1, T2) \subseteq {n}
             /\ l.req.route = "DELETE /tasks/:id" => n \notin DOMAIN T2
        ELSE l.status = 404 /\ T2 = T1

\* the index-based handler answered: a segment that is no position of the
\* caller's default-ordered list is answered 400, and otherwise the task at
\* that position is the only one touched
HandledByIndex(l, T1, T2) ==
  LET p == parseInt(l.req.param)
      own == {i \in DOMAIN T1 : T1[i].user_id = l.uid}
  IN IF p = NaN \/ p.n < 0 \/ p.n >= Cardinality(own)
     THEN l.status = 400 /\ T2 = T1
     ELSE /\ l.status = 200 /\ "message" \in DOMAIN l.body
          /\ \E rows \in getAllTasks(T1, l.uid, Undef, Undef, Undef) :
               /\ Touched(T1, T2) \subseteq {rows[p.n + 1].id}
               /\ l.req.route = "DELETE /tasks/:id" => rows[p.n + 1].id \notin DOMAIN T2

\* C19: a DELETE or PUT /tasks/:x is handled by the id-based handler exactly
\* when x is the canonical decimal form of a positive integer (an id that
\* names no task of the caller is answered 404, without any index lookup), and
\* by the index-based handler, which takes x as a position in the caller's
\* default-ordered list, for every other x.
C19_IdBeforeIndex ==
  [][(last'.req.route \in {"DELETE /tasks/:id", "PUT /tasks/:id"} /\ last'.uid # 0) =>
       IF Canonical(last'.req.param)
       THEN HandledById(last', tasks, tasks')
       ELSE HandledByIndex(last', tasks, tasks')]_vars

\* C19 happens: DELETE /tasks/01 was handled by the index-based handler, which
\* deleted the second task of the caller's list, task 2, and kept task 1
C19_Witness ==
  /\ last.req.route = "DELETE /tasks/:id" /\ last.req.param = <<"0", "1">>
  /\ last.status = 200
  /\ DOMAIN last.before = {1, 2}
  /\ DOMAIN tasks = {1}
-----------------------------------------------------------------------------
(* SpecValid: one user sends valid and invalid requests to every route that
   writes *)

\* lists that are no array, empty, and without a valid entry
NotAnArray == S(<<"x">>)
ValidIndexBodies ==
  {[indices |-> l, completed |-> B(TRUE)] :
     l \in {A(<<N(0)>>), NotAnArray, A(<<>>), A(<<N(7), S(<<"x">>)>>)}}
ValidIdBodies ==
  {[ids |-> l, completed |-> B(TRUE)] :
     l \in {A(<<N(1)>>), NotAnArray, A(<<>>), A(<<N(0), S(<<"x">>)>>)}}
ValidReorderBodies ==
  {[taskOrders |-> l] :
     l \in {A(<<Order(N(1), N(2))>>), NotAnArray, A(<<>>), A(<<Order(S(<<"x">>), N(1))>>)}}

NextValid ==
  \/ Register({Alice, AliceShort})
  \/ PostTasks(ValidHeaders, SpecTaskBodies \cup {TaskBody(Blank, Undef, Undef, Undef)}, MaxTasks)
  \/ DeleteTask(ValidHeaders, {One, Zero, <<"7">>, <<"a">>})
  \/ PutTask(ValidHeaders, {One, Zero, <<"0", "7">>}, SpecPutBodies \cup InvalidPutBodies)
  \/ PatchTask(ValidHeaders, {One}, SpecPatchBodies \cup InvalidPatchBodies)
  \/ PatchToggle(ValidHeaders, {Zero, <<"7">>, <<"a">>})
  \/ BulkDelete(ValidHeaders, ValidIndexBodies)
  \/ BulkComplete(ValidHeaders, ValidIndexBodies)
  \/ DeleteTasks(ValidHeaders, ValidIdBodies)
  \/ PatchTasks(ValidHeaders, ValidIdBodies)
  \/ Reorder(ValidHeaders, ValidReorderBodies, {NoFault})

SpecValid == Init /\ [][NextValid]_vars

\* the routes that write users or tasks
MutatingRoutes == WriteRoutes \cup {"POST /auth/register"}

\* C20: a request to a route that writes, when it is answered 400, has called
\* no persistence function and has left the stored tasks and users as they
\* were.
C20_RejectedBeforePersistence ==
  [][(last'.req.route \in MutatingRoutes /\ last'.status = 400) =>
       /\ last'.calls = <<>>
       /\ tasks' = tasks /\ users' = users]_vars

\* C20, the part that holds: a request to a route that writes, when it is
\* answered 400, has called no persistence function that writes and has left
\* the stored tasks and users as they were.
C20_RejectedChangesNothing ==
  [][(last'.req.route \in MutatingRoutes /\ last'.status = 400) =>
       /\ \A k \in DOMAIN last'.calls : last'.calls[k] = "getAllTasks"
       /\ tasks' = tasks /\ users' = users]_vars

\* C20 goes wrong: a PUT /tasks/0 with an invalid body, sent by a user who has
\* a task at position 0, was answered 400 "Validation failed" after the handler
\* had fetched the caller's list from the store
C20_Witness ==
  /\ last.req.route = "PUT /tasks/:id" /\ last.req.param = Zero
  /\ last.req.body \in InvalidPutBodies
  /\ \E i \in DOMAIN last.before : last.before[i].user_id = last.uid
  /\ last.status = 400 /\ last.body.message = "Validation failed"
  /\ last.calls = <<"getAllTasks">>
  /\ tasks = last.before
-----------------------------------------------------------------------------
(* SpecTTL: two users list their tasks while the clock runs past the TTL *)

\* the clock of SpecTTL stops at this tick
MaxTTLClock == 3

TTLQueries == {Query(Undef, Undef, Undef), Query(Undef, Undef, S(<<"manual">>))}

NextTTL ==
  \/ Register({Alice, Bob})
  \/ PostTasks(ValidHeaders, SpecTaskBodies, 1)
  \/ GetTasks(ValidHeaders, TTLQueries)
  \/ Tick(MaxTTLClock)

SpecTTL == Init /\ [][NextTTL]_vars

\* the key under which the listing asked for by req is cached
ListingKey(l) ==
  taskCacheKey(l.uid, l.req.query.search, l.req.query.category, l.req.query.sort)

\* C21: a GET /tasks whose key has a cached entry younger than the TTL is
\* answered X-Cache: HIT with the entry's data and without a store query;
\* otherwise (no entry, or its age has reached the TTL) the store is queried, the
\* answer is X-Cache: MISS and the key's entry is replaced by the answer with the
\* current timestamp.  An entry stays as it was installed for as long as it is
\* cached, so a hit repeats the body of the answer that installed it.
C21_HitWithinTTL ==
  [][(now' = now /\ last'.req.route = "GET /tasks" /\ last'.status = 200) =>
       LET key == ListingKey(last')
           i == CacheIndex(taskCache, key)
           j == CacheIndex(taskCache', key)
       IN /\ IF i # 0 /\ now - taskCache[i].timestamp < CACHE_TTL
             THEN /\ last'.body = [xcache |-> "HIT", data |-> taskCache[i].data]
                  /\ last'.calls = <<>>
                  /\ j # 0 /\ taskCache'[j] = taskCache[i]
             ELSE /\ last'.body.xcache = "MISS"
                  /\ last'.calls = <<"getAllTasks">>
                  /\ j # 0
                  /\ taskCache'[j] = [key |-> key, data |-> last'.body.data, timestamp |-> now]
          /\ \A k \in DOMAIN taskCache' :
               k # j => \E m \in DOMAIN taskCache : taskCache[m] = taskCache'[k]]_vars

\* a listing was answered from an entry installed one tick earlier, with a task
\* in it
C21_Witness ==
  /\ last.req.route = "GET /tasks" /\ last.status = 200
  /\ last.body.xcache = "HIT" /\ last.body.data # <<>>
  /\ LET j == CacheIndex(taskCache, ListingKey(last))
     IN j # 0 /\ taskCache[j].timestamp = now - 1
-----------------------------------------------------------------------------
(* SpecLRU: the methods of one LRUCache (taskCache) called in any order while
   the clock runs.  last.recent lists the keys by their most recent get, has or
   set, the oldest first. *)

LRUKeys == {<<"k", "1">>, <<"k", "2">>, <<"k", "3">>}
LRUData == <<>>

InitLRU ==
  /\ users = <<>> /\ tasks = <<>> /\ taskSeq = 0 /\ txOpen = FALSE
  /\ taskCache = <<>> /\ categoryCache = <<>>
  /\ now = 0 /\ creator = <<>> /\ inflight = <<>>
  /\ last = [req |-> [route |-> "none"], uid |-> 0, status |-> 0, body |-> Undef,
             calls |-> <<>>, before |-> <<>>, recent |-> <<>>]

\* key becomes the most recently accessed one
Accessed(recent, key) == Append(SelectSeq(recent, LAMBDA k : k # key), key)

\* a method of taskCache is called: cache is the Map afterwards
LRUCall(method, key, cache, touches) ==
  /\ taskCache' = cache
  /\ last' = [last EXCEPT !.req = [route |-> method, key |-> key],
                          !.recent = IF touches THEN Accessed(@, key) ELSE @]
  /\ UNCHANGED <<users, tasks, taskSeq, txOpen, categoryCache, now, creator, inflight>>

LRUGet == \E k \in LRUKeys : LRUCall("LRUCache.get", k, cacheGet(taskCache, k).cache, TRUE)
LRUHas == \E k \in LRUKeys : LRUCall("LRUCache.has", k, cacheHas(taskCache, k).cache, TRUE)
LRUSet == \E k \in LRUKeys : LRUCall("LRUCache.set", k, cacheSet(taskCache, k, LRUData), TRUE)
LRUDelete == \E k \in LRUKeys : LRUCall("LRUCache.delete", k, cacheDelete(taskCache, k), FALSE)
LRUClear == LRUCall("LRUCache.clear", <<>>, cacheClear(taskCache), FALSE)

NextLRU ==
  \/ LRUGet
  \/ LRUHas
  \/ LRUSet
  \/ LRUDelete
  \/ LRUClear
  \/ Tick(MaxTTLClock)

SpecLRU == InitLRU /\ [][NextLRU]_vars

\* the keys a cache holds
KeysOf(cache) == {cache[i].key : i \in DOMAIN cache}

\* the key of cache whose most recent get, has or set is the oldest
LeastRecent(cache, recent) ==
  recent[CHOOSE i \in DOMAIN recent :
           /\ recent[i] \in KeysOf(cache)
           /\ \A j \in 1..(i - 1) : recent[j] \notin KeysOf(cache)]

\* C22: when set inserts a new key into a cache that holds maxSize entries,
\* exactly one entry is evicted, the one whose most recent get, has or set is
\* the oldest, and the other entries stay; after every call the cache holds at
\* most maxSize entries.
C22_EvictsLeastRecent ==
  [][/\ Len(taskCache') <= MAX_CACHE_SIZE
     /\ (/\ last'.req.route = "LRUCache.set" /\ now' = now
         /\ last'.req.key \notin KeysOf(taskCache)
         /\ Len(taskCache) = MAX_CACHE_SIZE)
        => /\ KeysOf(taskCache') =
                (KeysOf(taskCache) \ {LeastRecent(taskCache, last.recent)})
                  \cup {last'.req.key}
           /\ \A i \in DOMAIN taskCache :
                taskCache[i].key # LeastRecent(taskCache, last.recent)
                  => \E j \in DOMAIN taskCache' : taskCache'[j] = taskCache[i]]_vars

\* a set into the full cache has just evicted the key accessed longest ago and
\* kept an entry that was stored at an earlier tick
C22_Witness ==
  /\ last.req.route = "LRUCache.set"
  /\ Len(taskCache) = MAX_CACHE_SIZE
  /\ Len(last.recent) = 3
  /\ last.recent[1] \notin KeysOf(taskCache)
  /\ taskCache[2].key = last.req.key
  /\ taskCache[1].timestamp < taskCache[2].timestamp
-----------------------------------------------------------------------------
(* SpecCategories: two users create, re-categorise and delete tasks and list
   their categories; a user may own more categories than the query returns *)

\* at most this many rows are ever inserted into tasks under SpecCategories
MaxCategoryTasks == 4

CatB == S(<<"b">>)
CatUpper == S(<<"B">>)
CatA == S(<<"a">>)
CategoryBodies == {TaskBody(TextA, Undef, Undef, c) : c \in {CatA, CatB, CatC, CatUpper}}
CategoryPutBodies == {PutBody(TextA, Undef, Undef, CatB, Undef)}

\* the headers that carry the tokens of the users with these ids
HeadersOf(ids) ==
  {Bearer(jwtSign(users[i].id, users[i].username, users[i].email)) :
     i \in DOMAIN users \cap ids}

NextCategories ==
  \/ Register({Alice, Bob})
  \/ PostTasks(HeadersOf({1}), CategoryBodies, MaxCategoryTasks)
  \/ PostTasks(HeadersOf({2}), {TaskBody(TextA, Undef, Undef, CatC)}, MaxCategoryTasks)
  \/ PutTask(ValidHeaders, {One}, CategoryPutBodies)
  \/ DeleteTask(ValidHeaders, {Two})
  \/ GetCategories(ValidHeaders)

SpecCategories == Init /\ [][NextCategories]_vars

\* the distinct non-empty category values of the tasks user uid has now
CategoriesOf(uid) ==
  {tasks[i].category.s :
     i \in {j \in DOMAIN tasks : /\ tasks[j].user_id = uid
                                 /\ tasks[j].category \notin {Null, Undef, S(<<>>)}}}

\* data lists values in ascending order, each once
Ascending(data) == \A i, j \in DOMAIN data : i < j => StringLess(data[i], data[j])

CategoriesListed(l) == l.req.route = "GET /categories" /\ l.status = 200

\* C23 as stated: GET /categories of user U answers with exactly the distinct
\* non-empty categories of U's current tasks, in ascending order.
C23_ExactlyOwnCategories ==
  CategoriesListed(last) =>
    /\ {last.body.data[i] : i \in DOMAIN last.body.data} = CategoriesOf(last.uid)
    /\ Ascending(last.body.data)

\* C23: GET /categories of user U answers, from the cache or from the store,
\* with the first CATEGORY_LIMIT of the distinct non-empty categories of U's
\* current tasks in the store's ascending string order (upper case before lower
\* case), and with nothing else.
C23_FirstOwnCategories ==
  CategoriesListed(last) =>
    LET data == last.body.data
        listed == {data[i] : i \in DOMAIN data}
    IN /\ listed \subseteq CategoriesOf(last.uid)
       /\ Ascending(data)
       /\ Len(data) = Min(Cardinality(CategoriesOf(last.uid)), CATEGORY_LIMIT)
       /\ \A c \in CategoriesOf(last.uid) \ listed : \A d \in listed : StringLess(d, c)

\* a user who has tasks in four categories was answered with the first three,
\* while the other user has a task in a category of their own
C23_Witness ==
  /\ CategoriesListed(last)
  /\ Cardinality(CategoriesOf(last.uid)) = 4
  /\ last.body.data = <<CatUpper.s, CatA.s, CatB.s>>
-----------------------------------------------------------------------------
(* SpecText: tasks are created and updated with texts around the length limit *)

Repeated(c, n) == [i \in 1..n |-> c]
Text200 == S(Repeated("a", TEXT_MAX))
Text201 == S(Repeated("a", TEXT_MAX + 1))
\* 201 and 202 characters, of which 200 and 201 are left after trimming
Text200Padded == S(<<" ">> \o Repeated("a", TEXT_MAX))
Text201Padded == S(Repeated("a", TEXT_MAX + 1) \o <<" ">>)
LimitTexts == {TextA, Text200, Text201, Text200Padded, Text201Padded, Empty, Blank}

NextText ==
  \/ Register({Alice, Bob})
  \/ PostTasks(ValidHeaders, {TaskBody(t, Undef, Undef, Undef) : t \in LimitTexts}, MaxTasks)
  \/ PutTask(ValidHeaders, {One, Two},
             {PutBody(t, Undef, Undef, Undef, Undef) : t \in LimitTexts \cup {TextB}})

SpecText == Init /\ [][NextText]_vars

\* the last request was a POST /tasks or PUT /tasks/:id of a signed-in user with
\* a string as text
TextSubmitted(l) ==
  /\ l.req.route \in {"POST /tasks", "PUT /tasks/:id"}
  /\ l.uid # 0
  /\ IsString(l.req.body.text)

TooLong(l) ==
  /\ l.status = 400
  /\ \E i \in DOMAIN l.body.details :
       l.body.details[i] = "Task text cannot exceed 200 characters"

\* C24 as stated: a text of exactly 200 characters is accepted, every text of
\* 201 or more characters is rejected with 400 and the length violation, and an
\* empty or whitespace-only text is rejected.
C24_LengthOfText ==
  TextSubmitted(last) =>
    LET t == last.req.body.text.s
    IN /\ Len(t) = TEXT_MAX => last.status # 400
       /\ Len(t) > TEXT_MAX => TooLong(last)
       /\ (\A i \in DOMAIN t : t[i] \in Whitespace) => last.status = 400

\* C24: with the text's length counted after its surrounding whitespace is
\* removed, a text of exactly 200 characters is accepted, every text of 201 or
\* more characters is rejected with 400 and the length violation, and an empty
\* or whitespace-only text is rejected.
C24_LengthOfTrimmedText ==
  TextSubmitted(last) =>
    LET t == last.req.body.text.s
        inner == trim(t)
    IN /\ Len(inner) = TEXT_MAX => last.status # 400
       /\ Len(inner) > TEXT_MAX => TooLong(last)
       /\ Len(inner) = 0 => last.status = 400 /\ ~TooLong(last)

\* a task was created from a text of 201 characters that is 200 long once
\* trimmed, and is stored with the trimmed text
C24_Witness ==
  /\ last.req.route = "POST /tasks" /\ last.status = 201
  /\ last.req.body.text = Text200Padded
  /\ \E i \in DOMAIN tasks : tasks[i].text = Text200
-----------------------------------------------------------------------------
(* Handlers in steps.  A handler runs until it awaits a store call; the
   statements of the calls of all waiting handlers reach the one shared
   connection (database.js: const db) in any order.  inflight[i].pc names the
   statement handler i waits for, inflight[i].loc holds its local values. *)

\* at most this many handlers wait for the store at a time
MaxInflight == 2

\* a handler starts to wait for its first statement
Await(req, pc, loc) ==
  /\ Len(inflight) < MaxInflight
  /\ inflight' = Append(inflight, [req |-> req, uid |-> Caller(req), pc |-> pc, loc |-> loc])
  /\ UNCHANGED <<users, tasks, taskSeq, txOpen, taskCache, categoryCache, now, creator, last>>

\* the statement handler i waits for is executed: the store becomes out, the
\* handler goes on to wait at pc with the local values loc
Proceed(i, out, pc, loc) ==
  /\ users' = out.users
  /\ tasks' = out.tasks
  /\ taskSeq' = out.taskSeq
  /\ txOpen' = out.txOpen
  /\ taskCache' = out.taskCache
  /\ categoryCache' = out.categoryCache
  /\ creator' = out.creator
  /\ inflight' = [inflight EXCEPT ![i].pc = pc, ![i].loc = loc]
  /\ UNCHANGED <<now, last>>

\* handler i answers its request with outcome out
Answer(i, out) ==
  /\ users' = out.users
  /\ tasks' = out.tasks
  /\ taskSeq' = out.taskSeq
  /\ txOpen' = out.txOpen
  /\ taskCache' = out.taskCache
  /\ categoryCache' = out.categoryCache
  /\ creator' = out.creator
  /\ inflight' = Without(inflight, i)
  /\ last' = [req |-> inflight[i].req, uid |-> inflight[i].uid, status |-> out.status,
               body |-> out.body, calls |-> out.calls, before |-> tasks]
  /\ now' = now

Waiting(pc) == {i \in DOMAIN inflight : inflight[i].pc = pc}

(* app.post('/tasks') in steps: addTask is a SELECT MAX(sort_order) and, in its
   callback, the INSERT *)

\* the handler validates the request and calls addTask
PostTasksBegin(headers, bodies, cap) ==
  /\ taskSeq + Cardinality(Waiting("addTask SELECT") \cup Waiting("addTask INSERT")) < cap
  /\ \E h \in headers, b \in bodies :
       LET req == [route |-> "POST /tasks", auth |-> h, body |-> b]
       IN /\ authenticateToken(h).ok
          /\ postTasksValidation(b) = <<>>
          /\ ~trimThrows(b.category)
          /\ Await(req, "addTask SELECT", <<>>)

\* SELECT MAX(sort_order) as max_sort FROM tasks WHERE user_id = ?
PostTasksSelect ==
  \E i \in Waiting("addTask SELECT") :
    Proceed(i, Same, "addTask INSERT",
            [nextSortOrder |-> MaxSortOrder(tasks, inflight[i].uid) + 1])

\* INSERT INTO tasks ... with the sort order computed from the SELECT
PostTasksInsert ==
  \E i \in Waiting("addTask INSERT") :
    LET body == inflight[i].req.body
        userId == inflight[i].uid
        priority == IF body.priority = Undef THEN S(<<"medium">>) ELSE body.priority
        taskId == taskSeq + 1
        row == [addTaskRow(tasks, taskId, S(trim(body.text.s)), userId, priority,
                           body.due_date, trimOrNull(body.category))
                  EXCEPT !.sort_order = inflight[i].loc.nextSortOrder]
    IN Proceed(i, [Same EXCEPT !.tasks = (taskId :> row) @@ tasks,
                               !.taskSeq = taskId,
                               !.creator = Append(creator, userId)],
               "addTask done", [id |-> taskId])

\* the handler clears the caches and answers 201
PostTasksAnswer ==
  \E i \in Waiting("addTask done") :
    LET body == inflight[i].req.body
        priority == IF body.priority = Undef THEN S(<<"medium">>) ELSE body.priority
    IN Answer(i, clearCategoryCache(clearTaskCache(
                   [Same EXCEPT
                      !.calls = <<"addTask">>,
                      !.status = 201,
                      !.body = [id |-> inflight[i].loc.id, text |-> S(trim(body.text.s)),
                                priority |-> priority,
                                due_date |-> Or(body.due_date, Null),
                                category |-> trimOrNull(body.category),
                                completed |-> FALSE]])))

-----------------------------------------------------------------------------
(* SpecPostRace: two users create tasks, up to two requests at a time *)

\* at most this many rows are ever inserted into tasks under SpecPostRace
MaxRaceTasks == 3

NextPostRace ==
  \/ Register({Alice, Bob})
  \/ PostTasksBegin(ValidHeaders, SpecTaskBodies \cup {TaskBody(TextB, Undef, Undef, CatC)},
                    MaxRaceTasks)
  \/ PostTasksSelect
  \/ PostTasksInsert
  \/ PostTasksAnswer
  \/ DeleteTask(ValidHeaders, {One})

SpecPostRace == Init /\ [][NextPostRace]_vars

\* C25: under any interleaving of POST /tasks requests, a task that is inserted
\* for a user gets a sort_order greater than that of every task of the user
\* stored at that moment, so no two tasks created for a user share a sort_order.
C25_MonotoneUnderInterleaving ==
  [][\A i \in DOMAIN tasks' \ DOMAIN tasks :
       \A j \in DOMAIN tasks :
         tasks[j].user_id = tasks'[i].user_id => tasks'[i].sort_order > tasks[j].sort_order]_vars

\* C25 goes wrong: two tasks created by the same user have the same sort_order,
\* and both requests were answered
C25_Witness ==
  /\ inflight = <<>>
  /\ \E i, j \in DOMAIN tasks :
       /\ i # j
       /\ tasks[i].user_id = tasks[j].user_id
       /\ tasks[i].sort_order = tasks[j].sort_order
-----------------------------------------------------------------------------
(* app.post('/auth/register') in steps: getUserByEmail, getUserByUsername and
   createUser are awaited one after the other *)

\* the handler validates the body and calls getUserByEmail
RegisterBegin(bodies) ==
  \E b \in bodies :
    /\ registerValidation(b) = <<>>
    /\ Await([route |-> "POST /auth/register", body |-> b], "getUserByEmail",
             [username |-> trim(b.username.s), email |-> toLowerCase(trim(b.email.s))])

\* SELECT * FROM users WHERE email = ? , then 409 or the call of getUserByUsername
RegisterByEmail ==
  \E i \in Waiting("getUserByEmail") :
    IF getUserByEmail(inflight[i].loc.email) # {}
    THEN Answer(i, Called(Reply(409, badRequest("Email already registered", <<>>)),
                          <<"getUserByEmail">>))
    ELSE Proceed(i, Same, "getUserByUsername", inflight[i].loc)

\* SELECT * FROM users WHERE username = ? , then 409 or bcrypt.hash and the call
\* of createUser
RegisterByUsername ==
  \E i \in Waiting("getUserByUsername") :
    IF getUserByUsername(inflight[i].loc.username) # {}
    THEN Answer(i, Called(Reply(409, badRequest("Username already taken", <<>>)),
                          <<"getUserByEmail", "getUserByUsername">>))
    ELSE Proceed(i, Same, "createUser", inflight[i].loc)

\* INSERT INTO users: a violated UNIQUE constraint rejects the promise and the
\* catch block answers 500; otherwise the handler signs the token and answers 201
RegisterCreate ==
  \E i \in Waiting("createUser") :
    LET username == inflight[i].loc.username
        email == inflight[i].loc.email
        calls == <<"getUserByEmail", "getUserByUsername", "createUser">>
    IN IF UniqueViolation(username, email)
       THEN Answer(i, Called(Reply(500, serverError("Failed to register user")), calls))
       ELSE Answer(i, [Same EXCEPT
                         !.users = createUser(username, email,
                                              bcryptHash(inflight[i].req.body.password.s)),
                         !.calls = calls,
                         !.status = 201,
                         !.body = [message |-> "User registered successfully",
                                   user |-> [id |-> Len(users) + 1, username |-> username,
                                             email |-> email],
                                   token |-> jwtSign(Len(users) + 1, username, email)]])

-----------------------------------------------------------------------------
(* SpecRegisterRace: registrations, up to two at a time, with equal and with
   different emails and usernames *)

RaceRegisterBodies == {Alice, Bob, AliceShout, AliceTwin}

NextRegisterRace ==
  \/ RegisterBegin(RaceRegisterBodies)
  \/ RegisterByEmail
  \/ RegisterByUsername
  \/ RegisterCreate
  \/ Login({Credentials(Alice.email, Alice.password)})

SpecRegisterRace == Init /\ [][NextRegisterRace]_vars

\* C26: a registration with a valid body is answered 201 when it created the
\* user and 409 when its email or username was taken, by an earlier or by a
\* concurrent registration; it is never answered 500.
C26_DuplicateIs409 ==
  [][(last'.req.route = "POST /auth/register" /\ Len(inflight') < Len(inflight)) =>
       \/ last'.status = 201 /\ Len(users') = Len(users) + 1
       \/ last'.status = 409 /\ users' = users]_vars

\* C26 goes wrong: of two registrations with the same email and username that
\* were processed at the same time one was answered 500
C26_Witness ==
  /\ last.req.route = "POST /auth/register"
  /\ last.req.body = Alice
  /\ last.status = 500
  /\ last.calls = <<"getUserByEmail", "getUserByUsername", "createUser">>
  /\ Len(users) = 1 /\ users[1].email = Alice.email.s
-----------------------------------------------------------------------------
(* app.get('/tasks') in steps: the cache is read before getAllTasks is awaited
   and written after it *)

\* the handler finds no fresh entry under its key and calls getAllTasks
GetTasksBegin(headers, queries) ==
  \E h \in headers, q \in queries :
    LET req == [route |-> "GET /tasks", auth |-> h, query |-> q]
        a == authenticateToken(h)
        cacheKey == taskCacheKey(a.user.userId, q.search, q.category, q.sort)
        look == CacheLookup(taskCache, cacheKey)
    IN /\ a.ok
       /\ ~(Truthy(q.search) /\ ~IsString(q.search))
       /\ ~(Truthy(q.category) /\ ~IsString(q.category))
       /\ ~(Truthy(q.sort) /\ q.sort \notin SortModes)
       /\ ~look.hit
       /\ Len(inflight) < MaxInflight
       /\ taskCache' = look.cache
       /\ inflight' = Append(inflight, [req |-> req, uid |-> a.user.userId,
                                        pc |-> "getAllTasks", loc |-> [cacheKey |-> cacheKey]])
       /\ UNCHANGED <<users, tasks, taskSeq, txOpen, categoryCache, now, creator, last>>

\* the SELECT of getAllTasks
GetTasksQuery ==
  \E i \in Waiting("getAllTasks") :
    \E rows \in getAllTasks(tasks, inflight[i].uid, inflight[i].req.query.search,
                            inflight[i].req.query.category, inflight[i].req.query.sort) :
      Proceed(i, Same, "getAllTasks done",
              [cacheKey |-> inflight[i].loc.cacheKey, rows |-> rows])

\* the handler formats the rows, stores them in the cache and answers
GetTasksAnswer ==
  \E i \in Waiting("getAllTasks done") :
    LET rows == inflight[i].loc.rows
        formattedTasks == [k \in DOMAIN rows |-> formatTask(rows[k])]
    IN Answer(i, [Same EXCEPT
                    !.taskCache = cacheSet(taskCache, inflight[i].loc.cacheKey, formattedTasks),
                    !.calls = <<"getAllTasks">>,
                    !.status = 200,
                    !.body = [xcache |-> "MISS", data |-> formattedTasks]])

-----------------------------------------------------------------------------
(* SpecReadRace: a user lists tasks while tasks are created, updated and
   deleted *)

NextReadRace ==
  \/ Register({Alice})
  \/ PostTasks(ValidHeaders, SpecTaskBodies, MaxTasks)
  \/ PutTask(ValidHeaders, {One}, {PutBody(TextB, Undef, Undef, Undef, B(TRUE))})
  \/ DeleteTask(ValidHeaders, {Two})
  \/ GetTasks(ValidHeaders, CacheQueries)
  \/ GetTasksBegin(ValidHeaders, CacheQueries)
  \/ GetTasksQuery
  \/ GetTasksAnswer

SpecReadRace == Init /\ [][NextReadRace]_vars

\* C27: a GET /tasks that is answered from the cache after a write has been
\* answered returns a list the store holds at that moment for the caller and
\* the parameters, never one that was read from the store before the write.
C27_NoStaleHit ==
  (last.req.route = "GET /tasks" /\ last.status = 200 /\ last.body.xcache = "HIT") =>
    last.body.data \in StoreListings(last.uid, last.req.query)

\* C27 goes wrong: with no request waiting, a listing was answered from the
\* cache without task 1, which the store holds
C27_Witness ==
  /\ inflight = <<>>
  /\ last.req.route = "GET /tasks" /\ last.status = 200 /\ last.body.xcache = "HIT"
  /\ last.body.data = <<>>
  /\ 1 \in DOMAIN tasks
-----------------------------------------------------------------------------
(* app.patch('/tasks/:id') with a completed field, in steps: getAllTasks is
   awaited, then updateTask with the values of the row that was read *)

\* the handler checks the id and the body and calls getAllTasks
PatchTaskBegin(headers, params, bodies) ==
  \E h \in headers, x \in params, b \in bodies :
    /\ authenticateToken(h).ok
    /\ isValidTaskId(x)
    /\ IsBoolean(b.completed)
    /\ Await([route |-> "PATCH /tasks/:id", auth |-> h, param |-> x, body |-> b],
             "getAllTasks", [taskId |-> parseInt(x).n])

\* the SELECT of getAllTasks and tasks.find: 404, or the call of updateTask
PatchTaskRead ==
  \E i \in Waiting("getAllTasks") :
    \E rows \in getAllTasks(tasks, inflight[i].uid, Undef, Undef, Undef) :
      LET found == findTask(rows, inflight[i].loc.taskId)
      IN IF found = {}
         THEN Answer(i, Called(Reply(404, notFound("Task")), <<"getAllTasks">>))
         ELSE Proceed(i, Same, "updateTask",
                      [taskId |-> inflight[i].loc.taskId, task |-> CHOOSE t \in found : TRUE])

\* the UPDATE of updateTask, then 404, or the cache clear and 204
PatchTaskUpdate ==
  \E i \in Waiting("updateTask") :
    LET taskId == inflight[i].loc.taskId
        task == inflight[i].loc.task
        userId == inflight[i].uid
    IN IF ~Changed(tasks, taskId, userId)
       THEN Answer(i, Called(Reply(404, notFound("Task")), <<"getAllTasks", "updateTask">>))
       ELSE Answer(i, clearTaskCache(
                        [Same EXCEPT
                           !.tasks = updateTask(tasks, taskId, userId, task.text,
                                                task.priority, task.due_date, task.category,
                                                inflight[i].req.body.completed),
                           !.calls = <<"getAllTasks", "updateTask">>,
                           !.status = 204]))

-----------------------------------------------------------------------------
(* SpecPatchRace: a user completes tasks while the tasks are updated and
   deleted *)

RacePutBodies == {PutBody(TextB, S(<<"high">>), DateD, CatC, Undef)}

NextPatchRace ==
  \/ Register({Alice})
  \/ PostTasks(ValidHeaders, SpecTaskBodies, MaxTasks)
  \/ PutTask(ValidHeaders, {One}, RacePutBodies)
  \/ DeleteTask(ValidHeaders, {Two})
  \/ PatchTaskBegin(ValidHeaders, {One, Two}, {[completed |-> B(TRUE)], [completed |-> B(FALSE)]})
  \/ PatchTaskRead
  \/ PatchTaskUpdate

SpecPatchRace == Init /\ [][NextPatchRace]_vars

\* C28: the update of a PATCH /tasks/:id with a completed field leaves text,
\* priority, due_date and category of every task as the requests answered
\* before it left them, also when a PUT was answered between the handler's read
\* and its update.
C28_PatchKeepsOtherFields ==
  [][(last'.req.route = "PATCH /tasks/:id" /\ Len(inflight') < Len(inflight)) =>
       \A i \in DOMAIN tasks :
         /\ i \in DOMAIN tasks'
         /\ tasks'[i].text = tasks[i].text
         /\ tasks'[i].priority = tasks[i].priority
         /\ tasks'[i].due_date = tasks[i].due_date
         /\ tasks'[i].category = tasks[i].category]_vars

\* C28 goes wrong: a PATCH was answered 204 after a PUT had been answered 200,
\* and task 1 has the text and category of before the PUT
C28_Witness ==
  /\ last.req.route = "PATCH /tasks/:id" /\ last.status = 204
  /\ 1 \in DOMAIN last.before /\ last.before[1].text = TextB /\ last.before[1].category = CatC
  /\ tasks[1].text = TextA /\ tasks[1].category = Null
  /\ tasks[1].completed = 1
-----------------------------------------------------------------------------
(* app.post('/tasks/reorder') in steps: reorderTasks sends BEGIN TRANSACTION,
   one UPDATE per entry and COMMIT or ROLLBACK to the shared connection as
   separate statements *)

\* the handler validates the body, calls reorderTasks, and BEGIN TRANSACTION is
\* executed; loc.snapshot is what a ROLLBACK returns to
ReorderBegin(headers, bodies) ==
  \E h \in headers, b \in bodies :
    LET req == [route |-> "POST /tasks/reorder", auth |-> h, body |-> b, fault |-> NoFault]
    IN /\ authenticateToken(h).ok
       /\ IsArray(b.taskOrders) /\ Len(b.taskOrders.a) > 0
       /\ \A k \in DOMAIN b.taskOrders.a :
            IsInteger(b.taskOrders.a[k].id) /\ IsInteger(b.taskOrders.a[k].sort_order)
       /\ ~txOpen
       /\ Len(inflight) < MaxInflight
       /\ txOpen' = TRUE
       /\ inflight' = Append(inflight,
                             [req |-> req, uid |-> Caller(req), pc |-> "UPDATE",
                              loc |-> [k |-> 1,
                                       snapshot |-> [tasks |-> tasks, taskSeq |-> taskSeq,
                                                     creator |-> creator]]])
       /\ UNCHANGED <<users, tasks, taskSeq, taskCache, categoryCache, now, creator, last>>

\* stmt.run: the next UPDATE tasks SET sort_order = ? WHERE id = ? of the batch
ReorderStatement ==
  \E i \in Waiting("UPDATE") :
    LET taskOrders == inflight[i].req.body.taskOrders.a
        k == inflight[i].loc.k
    IN Proceed(i, [Same EXCEPT !.tasks = reorderStatement(tasks, taskOrders[k])],
               IF k = Len(taskOrders) THEN "finalize" ELSE "UPDATE",
               [inflight[i].loc EXCEPT !.k = k + 1])

\* stmt.finalize, then COMMIT, cache clear and 200, or, when finalize reports an
\* error, ROLLBACK and 500
ReorderEnd(finalizeFails) ==
  \E i \in Waiting("finalize"), failed \in finalizeFails :
    IF failed
    THEN Answer(i, [Same EXCEPT !.tasks = inflight[i].loc.snapshot.tasks,
                                !.taskSeq = inflight[i].loc.snapshot.taskSeq,
                                !.creator = inflight[i].loc.snapshot.creator,
                                !.txOpen = FALSE,
                                !.calls = <<"reorderTasks">>,
                                !.status = 500,
                                !.body = [error |-> "Internal server error"]])
    ELSE Answer(i, clearTaskCache(
                     [Same EXCEPT !.txOpen = FALSE,
                                  !.calls = <<"reorderTasks">>,
                                  !.status = 200,
                                  !.body = [message |-> "tasks reordered successfully"]]))

-----------------------------------------------------------------------------
(* SpecTx: a user reorders two tasks while listing and updating them *)

TxReorderBodies == {[taskOrders |-> A(<<Order(N(1), N(2)), Order(N(2), N(1))>>)]}
TxQueries == {Query(Undef, Undef, S(<<"manual">>))}

NextTx ==
  \/ Register({Alice})
  \/ PostTasks(ValidHeaders, SpecTaskBodies, MaxTasks)
  \/ PutTask(ValidHeaders, {One}, {PutBody(TextB, Undef, Undef, Undef, Undef)})
  \/ GetTasks(ValidHeaders, TxQueries)
  \/ ReorderBegin(ValidHeaders, TxReorderBodies)
  \/ ReorderStatement
  \/ ReorderEnd(BOOLEAN)

SpecTx == Init /\ [][NextTx]_vars

\* the reorder batches that have begun and are neither committed nor rolled back
OpenBatches ==
  {i \in DOMAIN inflight : inflight[i].req.route = "POST /tasks/reorder"}

\* table T with none, and with all, of the sort_order values of batch i
BatchUndone(T, i) ==
  LET snap == inflight[i].loc.snapshot.tasks
      ids == {inflight[i].req.body.taskOrders.a[k].id.n :
                k \in DOMAIN inflight[i].req.body.taskOrders.a}
  IN [j \in DOMAIN T |->
        IF j \in ids /\ j \in DOMAIN snap
        THEN [T[j] EXCEPT !.sort_order = snap[j].sort_order] ELSE T[j]]
BatchDone(T, i) == reorderStatements(T, inflight[i].req.body.taskOrders.a, 1, 0)

ListingsOf(T, uid, q) ==
  {[k \in DOMAIN rows |-> formatTask(rows[k])] :
     rows \in getAllTasks(T, uid, q.search, q.category, q.sort)}

\* C29: a GET /tasks answered while a reorder batch is open lists the tasks
\* with all of the batch's sort_order values or with none of them, and no
\* other request has a statement executed between the batch's BEGIN and its
\* COMMIT or ROLLBACK.
C29_BatchIsIsolated ==
  [][(txOpen /\ inflight' = inflight) =>
       /\ last'.calls = <<>>
       /\ (last'.req.route = "GET /tasks" /\ last'.status = 200) =>
            \A i \in OpenBatches :
              last'.body.data \in ListingsOf(BatchUndone(tasks, i), last'.uid, last'.req.query)
                                    \cup ListingsOf(BatchDone(tasks, i), last'.uid, last'.req.query)]_vars

\* C29 goes wrong: a reorder was rolled back and answered 500, and with it the
\* text that a PUT answered 200 had stored in task 1 is gone
C29_Witness ==
  /\ last.req.route = "POST /tasks/reorder" /\ last.status = 500
  /\ 1 \in DOMAIN last.before /\ last.before[1].text = TextB
  /\ 1 \in DOMAIN tasks /\ tasks[1].text = TextA
  /\ ~txOpen /\ inflight = <<>>
-----------------------------------------------------------------------------
(* SpecCap: users who own more tasks than the listing query returns complete
   tasks by id *)

\* at most this many rows are ever inserted into tasks under SpecCap
MaxCapTasks == 4

Four == <<"4">>
CapParams == {One, Three, Four, <<"9">>}
CapPatchBodies == {[completed |-> B(TRUE)]}
CapIdBodies == {[ids |-> A(<<N(1), N(4)>>), completed |-> B(TRUE)]}

NextCap ==
  \/ Register({Alice, Bob})
  \/ PostTasks(ValidHeaders, SpecTaskBodies, MaxCapTasks)
  \/ PatchTask(ValidHeaders, CapParams, CapPatchBodies)
  \/ PatchTasks(ValidHeaders, CapIdBodies)

SpecCap == Init /\ [][NextCap]_vars

\* C30: a PATCH /tasks/:id with a completed field is answered 404 exactly when
\* the caller owns no task with that id, and otherwise 204 with the task
\* updated, however many tasks the caller has; a PATCH /tasks {ids, completed}
\* updates every task of the list that the caller owns and counts it.
C30_OwnedTaskIsFound ==
  [][/\ (last'.req.route = "PATCH /tasks/:id" /\ last'.uid # 0) =>
          LET id == DigitsValue(last'.req.param)
              owned == id \in DOMAIN tasks /\ tasks[id].user_id = last'.uid
          IN /\ last'.status = 404 <=> ~owned
             /\ owned => /\ last'.status = 204
                         /\ tasks'[id].completed = 1
     /\ (last'.req.route = "PATCH /tasks" /\ last'.uid # 0 /\ last'.status = 200) =>
          LET ids == {last'.req.body.ids.a[k].n : k \in DOMAIN last'.req.body.ids.a}
              owned == {id \in ids : id \in DOMAIN tasks /\ tasks[id].user_id = last'.uid}
          IN /\ \A id \in owned : tasks'[id].completed = 1
             /\ last'.body.updated = Cardinality(owned)]_vars

\* C30 goes wrong: a user with four tasks was answered 404 for one of them,
\* and the task is not completed
C30_Witness ==
  /\ last.req.route = "PATCH /tasks/:id" /\ last.status = 404
  /\ LET id == DigitsValue(last.req.param)
     IN /\ id \in DOMAIN tasks
        /\ tasks[id].user_id = last.uid
        /\ tasks[id].completed = 0
  /\ Cardinality({i \in DOMAIN tasks : tasks[i].user_id = last.uid}) = 4
====
